---- MODULE Spec2Model ----
(***************************************************************************)
(* Synchronous pipeline execution core of the orchestrator:                *)
(*   - partial_run_utils.py: mark_pipeline, snapshot and the helpers of    *)
(*     the partial-run marker;                                             *)
(*   - sync_pipeline_task_gen.py: SyncPipelineTaskGenerator.generate.      *)
(*                                                                         *)
(* A node id is the node's position in pipeline.nodes (IR order), so the   *)
(* order of an OrderedDict keyed by node id is the order of the ids.       *)
(* Repeated fields that the code only tests for membership                 *)
(* (upstream_nodes, downstream_nodes) are sets.                            *)
(***************************************************************************)
EXTENDS Integers, Sequences, FiniteSets, TLC

\* Largest number of nodes of a pipeline the marker is applied to.
MaxNodes == 3
\* How often one run is disturbed from outside: a failed or stopped node set
\* back to STARTING, a stop request, a restart of the orchestrator process.
MaxDisturbances == 1

VARIABLES
  pipeline,   \* the pipeline IR: sequence of node records, in IR order
  phase,      \* "compiled" | "marked" | "running" | "finalized" | "aborted" | "partial_run"
  markLog,    \* arguments and intermediate results of the last mark_pipeline
  svcKind,    \* service job manager: node id -> "none" | "pure" | "mixed"
  nodeState,  \* pipeline state: node id -> NodeState
  executions, \* metadata store: the run's executions, execution id = index
  queue,      \* task queue: the ExecNodeTasks enqueued and not yet done
  _successful_nodes_cache, \* the node ids cached for this run
  tick,       \* what the generate() call that just returned read and decided
  budget,     \* how many disturbances from outside are still allowed
  runtime     \* partial run at node runtime: base run, started nodes, reuse

markVars == <<pipeline, phase, markLog>>
genVars == <<svcKind, nodeState, executions, queue, _successful_nodes_cache, tick, budget, runtime>>
vars == <<pipeline, phase, markLog, svcKind, nodeState, executions, queue, _successful_nodes_cache, tick, budget, runtime>>

(***************************************************************************)
(* Pipeline IR                                                             *)
(***************************************************************************)

\* NodeExecutionOptions with neither member of the partial_run_option oneof.
NoExecutionOptions ==
  [partial_run_option |-> "unset", chief_settings |-> "unset",
   child_in_partial_run |-> FALSE]

ChiefSettingsValues ==
  {"latest_pipeline_run_strategy", "base_pipeline_run_strategy"}

_default_chief_settings == "latest_pipeline_run_strategy"

\* Upstream adjacency of every topologically sorted DAG on n nodes.
SortedDags(n) ==
  { up \in [1..n -> SUBSET (1..n)] : \A i \in 1..n : up[i] \subseteq 1..(i-1) }

\* The producers of a node's input channels are upstream nodes of it; an
\* upstream node without a channel is a pure task dependency.
ProducerChoices(n, up) ==
  { prod \in [1..n -> SUBSET (1..n)] : \A i \in 1..n : prod[i] \subseteq up[i] }

\* A compiled pipeline: symmetric upstream/downstream, nothing marked.
CompiledPipeline(n, up, prod, cache) ==
  [i \in 1..n |->
     [id |-> i,
      upstream_nodes |-> up[i],
      downstream_nodes |-> {j \in 1..n : i \in up[j]},
      producers |-> prod[i],
      enable_cache |-> cache[i],
      execution_options |-> NoExecutionOptions]]

NodeIdsOf(p) == {p[i].id : i \in 1..Len(p)}

\* A set of node ids as a list, in IR order.
RECURSIVE IdList(_)
IdList(S) ==
  IF S = {} THEN <<>>
  ELSE LET m == CHOOSE x \in S : \A y \in S : x <= y
       IN <<m>> \o IdList(S \ {m})

(***************************************************************************)
(* partial_run_utils.py: the marker                                        *)
(***************************************************************************)

RECURSIVE UpstreamCheck(_, _, _)
UpstreamCheck(p, i, visited) ==
  IF i > Len(p) THEN TRUE
  ELSE /\ p[i].upstream_nodes \subseteq visited
       /\ UpstreamCheck(p, i + 1, visited \cup {p[i].id})

RECURSIVE DownstreamCheck(_, _, _)
DownstreamCheck(p, i, visited) ==
  IF i < 1 THEN TRUE
  ELSE /\ p[i].downstream_nodes \subseteq visited
       /\ DownstreamCheck(p, i - 1, visited \cup {p[i].id})

\* TRUE iff _ensure_topologically_sorted does not raise.
_ensure_topologically_sorted(p) ==
  UpstreamCheck(p, 1, {}) /\ DownstreamCheck(p, Len(p), {})

_make_ordered_node_map(p) ==
  [id \in NodeIdsOf(p) |-> p[CHOOSE i \in 1..Len(p) : p[i].id = id]]

\* The inner while loop of _traverse: a depth-first walk driven by a stack.
RECURSIVE TraverseStack(_, _, _, _)
TraverseStack(node_map, direction, stack, result) ==
  IF stack = <<>> THEN result
  ELSE LET current_node_id == stack[Len(stack)]
           rest == SubSeq(stack, 1, Len(stack) - 1)
       IN IF current_node_id \in result
          THEN TraverseStack(node_map, direction, rest, result)
          ELSE TraverseStack(
                 node_map, direction,
                 rest \o IdList(IF direction = "UPSTREAM"
                                THEN node_map[current_node_id].upstream_nodes
                                ELSE node_map[current_node_id].downstream_nodes),
                 result \cup {current_node_id})

RECURSIVE TraverseFrom(_, _, _, _)
TraverseFrom(node_map, direction, starts, result) ==
  IF starts = <<>> THEN result
  ELSE TraverseFrom(node_map, direction, Tail(starts),
                    TraverseStack(node_map, direction, <<Head(starts)>>, result))

\* A traversal that forgets to follow the edges: only the start nodes.
_traverse_no_edges(node_map, direction, start_nodes) == start_nodes

_traverse(node_map, direction, start_nodes) ==
  TraverseFrom(node_map, direction, IdList(start_nodes), {})

\* A filter that keeps the selected nodes themselves and forgets the nodes
\* between them.
_filter_node_map_selected_only(node_map, from_node_ids, to_node_ids) ==
  [node_id \in {id \in DOMAIN node_map :
                  id \in from_node_ids \cup to_node_ids} |->
     node_map[node_id]]

_filter_node_map(node_map, from_node_ids, to_node_ids) ==
  LET ancestors_of_to_nodes == _traverse(node_map, "UPSTREAM", to_node_ids)
      descendents_of_from_nodes ==
        _traverse(node_map, "DOWNSTREAM", from_node_ids)
      nodes_to_keep == ancestors_of_to_nodes \cap descendents_of_from_nodes
  IN [node_id \in {id \in DOMAIN node_map : id \in nodes_to_keep} |->
        node_map[node_id]]

\* A variant that returns the node as it is.
_remove_dangling_downstream_nodes_keeping_all(node, node_ids_to_keep) ==
  node

_remove_dangling_downstream_nodes(node, node_ids_to_keep) ==
  [node EXCEPT !.downstream_nodes = {d \in @ : d \in node_ids_to_keep}]

\* A variant that tests the channels' producers against the kept ids
\* instead of the removed ones.
_handle_missing_inputs_kept_producers(node, node_ids_to_keep) ==
  LET upstream_nodes_removed ==
        {u \in node.upstream_nodes : u \notin node_ids_to_keep}
  IN IF upstream_nodes_removed = {}
     THEN <<node, {}>>
     ELSE <<[node EXCEPT !.upstream_nodes = @ \ upstream_nodes_removed],
            {c \in node.producers : c \in node_ids_to_keep}>>

\* <<the node with the removed upstream nodes dropped, excluded_direct_deps>>
_handle_missing_inputs(node, node_ids_to_keep) ==
  LET upstream_nodes_removed ==
        {u \in node.upstream_nodes : u \notin node_ids_to_keep}
      upstream_nodes_to_keep ==
        {u \in node.upstream_nodes : u \in node_ids_to_keep}
  IN IF upstream_nodes_removed = {}
     THEN <<node, {}>>
     ELSE <<[node EXCEPT !.upstream_nodes = upstream_nodes_to_keep],
            {c \in node.producers : c \in upstream_nodes_removed}>>

\* <<fixed_nodes, merged_excluded_direct_deps>>
_fix_nodes(node_map) ==
  LET keys == DOMAIN node_map
      fixed(id) ==
        _handle_missing_inputs(
          _remove_dangling_downstream_nodes(node_map[id], keys), keys)
  IN <<[id \in keys |-> fixed(id)[1]],
       UNION {fixed(id)[2] : id \in keys}>>

\* node_exec_opts.run.chief_settings.CopyFrom(chief_settings): selects the
\* run member of the oneof (clearing skip) and sets its chief_settings.
RunWithChief(opts, chief_settings) ==
  [partial_run_option |-> "run", chief_settings |-> chief_settings,
   child_in_partial_run |-> FALSE]

\* node_exec_opts.run.SetInParent(): selects the run member of the oneof; a
\* run message that is already there keeps its fields.
RunSetInParent(opts) ==
  [partial_run_option |-> "run",
   chief_settings |-> IF opts.partial_run_option = "run"
                      THEN opts.chief_settings ELSE "unset",
   child_in_partial_run |-> FALSE]

\* node_exec_opts.skip.child_in_partial_run = b: selects the skip member of
\* the oneof (clearing run).
SkipWithChild(opts, b) ==
  [partial_run_option |-> "skip", chief_settings |-> "unset",
   child_in_partial_run |-> b]

RECURSIVE MarkLoop(_, _, _, _, _, _)
MarkLoop(p, i, chief_already_nominated, node_ids_to_include, excluded_direct_dependencies, chief_settings) ==
  IF i > Len(p) THEN p
  ELSE LET node_id == p[i].id
           opts == p[i].execution_options
       IN IF node_id \in node_ids_to_include
          THEN MarkLoop(
                 [p EXCEPT ![i].execution_options =
                    IF chief_already_nominated
                    THEN RunSetInParent(opts)
                    ELSE RunWithChief(opts, chief_settings)],
                 i + 1, TRUE, node_ids_to_include,
                 excluded_direct_dependencies, chief_settings)
          ELSE MarkLoop(
                 [p EXCEPT ![i].execution_options =
                    SkipWithChild(opts,
                                  node_id \in excluded_direct_dependencies)],
                 i + 1, chief_already_nominated, node_ids_to_include,
                 excluded_direct_dependencies, chief_settings)

\* A marker that never remembers that a chief was nominated.
_mark_nodes_every_run_node_chief(p, node_ids_to_include, excluded_direct_dependencies, chief_settings) ==
  [i \in 1..Len(p) |->
     [p[i] EXCEPT !.execution_options =
        IF p[i].id \in node_ids_to_include
        THEN RunWithChief(@, chief_settings)
        ELSE SkipWithChild(@, p[i].id \in excluded_direct_dependencies)]]

\* A marker that nominates the last included node instead of the first.
_mark_nodes_nominate_last(p, node_ids_to_include, excluded_direct_dependencies, chief_settings) ==
  [i \in 1..Len(p) |->
     [p[i] EXCEPT !.execution_options =
        IF p[i].id \in node_ids_to_include
        THEN IF \A j \in (i+1)..Len(p) : p[j].id \notin node_ids_to_include
             THEN RunWithChief(@, chief_settings)
             ELSE RunSetInParent(@)
        ELSE SkipWithChild(@, p[i].id \in excluded_direct_dependencies)]]

\* The pipeline after the in-place marking.
_mark_nodes_and_nominate_chief(p, node_ids_to_include, excluded_direct_dependencies, chief_settings) ==
  MarkLoop(p, 1, FALSE, node_ids_to_include, excluded_direct_dependencies,
           chief_settings)

\* What one mark_pipeline call computes from pipeline p.
MarkResult(p, from_nodes, to_nodes, chief_settings) ==
  LET node_map == _make_ordered_node_map(p)
      from_node_ids == {id \in DOMAIN node_map : id \in from_nodes}
      to_node_ids == {id \in DOMAIN node_map : id \in to_nodes}
      filtered == _filter_node_map(node_map, from_node_ids, to_node_ids)
      fixed == _fix_nodes(filtered)
  IN [from_node_ids |-> from_node_ids,
      to_node_ids |-> to_node_ids,
      node_map |-> fixed[1],
      excluded_direct_dependencies |-> fixed[2],
      pipeline |-> _mark_nodes_and_nominate_chief(
                     p, DOMAIN fixed[1], fixed[2], chief_settings)]

NoMarkLog ==
  [called |-> FALSE, from_node_ids |-> {}, to_node_ids |-> {},
   node_map |-> <<>>, excluded_direct_dependencies |-> {}]

\* mark_pipeline(pipeline, from_nodes, to_nodes, chief_settings); the
\* predicates are given by the sets of ids they select.
mark_pipeline(from_nodes, to_nodes, chief_settings) ==
  /\ phase = "compiled"
  /\ _ensure_topologically_sorted(pipeline)
  /\ LET r == MarkResult(pipeline, from_nodes, to_nodes, chief_settings)
     IN /\ pipeline' = r.pipeline
        /\ markLog' = [called |-> TRUE,
                       from_node_ids |-> r.from_node_ids,
                       to_node_ids |-> r.to_node_ids,
                       node_map |-> r.node_map,
                       excluded_direct_dependencies |->
                         r.excluded_direct_dependencies]
  /\ phase' = "marked"
  /\ UNCHANGED genVars

\* Nothing has happened at node runtime: no store, no run id in the IR, no
\* node started, no call of reuse_pipeline_run_artifacts and no call of
\* reuse_node_outputs made.
NoRuntime ==
  [store |-> <<>>, pipeline_run_id |-> "", started |-> {}, finished |-> {},
   reuse_complete |-> FALSE, calls |-> <<>>, node_calls |-> <<>>]

(***************************************************************************)
(* The marker applied to every small compiled pipeline                     *)
(***************************************************************************)

InitMark ==
  /\ \E n \in 1..MaxNodes :
       \E up \in SortedDags(n) :
         \E prod \in ProducerChoices(n, up) :
           pipeline = CompiledPipeline(n, up, prod, [i \in 1..n |-> FALSE])
  /\ phase = "compiled"
  /\ markLog = NoMarkLog
  /\ svcKind = <<>> /\ nodeState = <<>> /\ executions = <<>>
  /\ queue = <<>> /\ _successful_nodes_cache = {} /\ tick = <<>>
  /\ budget = 0
  /\ runtime = NoRuntime

MarkAny ==
  \E from_nodes \in SUBSET NodeIdsOf(pipeline) :
    \E to_nodes \in SUBSET NodeIdsOf(pipeline) :
      \E chief_settings \in ChiefSettingsValues :
        mark_pipeline(from_nodes, to_nodes, chief_settings)

NextMark == MarkAny

SpecMark == InitMark /\ [][NextMark]_vars

(***************************************************************************)
(* Properties of the marker                                                *)
(***************************************************************************)

\* Reachability stated on the upstream relation alone, as a fixpoint.
RECURSIVE Descendants(_, _)
Descendants(p, S) ==
  LET S2 == S \cup {j \in NodeIdsOf(p) : p[j].upstream_nodes \cap S # {}}
  IN IF S2 = S THEN S ELSE Descendants(p, S2)

RECURSIVE Ancestors(_, _)
Ancestors(p, S) ==
  LET S2 == S \cup UNION {p[j].upstream_nodes : j \in S}
  IN IF S2 = S THEN S ELSE Ancestors(p, S2)

RunNodes(p) ==
  {p[i].id : i \in {k \in 1..Len(p) :
                      p[k].execution_options.partial_run_option = "run"}}

SkipNodes(p) ==
  {p[i].id : i \in {k \in 1..Len(p) :
                      p[k].execution_options.partial_run_option = "skip"}}

ChiefNodes(p) ==
  {p[i].id : i \in {k \in 1..Len(p) :
                      p[k].execution_options.chief_settings # "unset"}}

ChildInPartialRun(p) ==
  {p[i].id : i \in {k \in 1..Len(p) :
                      p[k].execution_options.child_in_partial_run}}

\* to_keep of the last mark_pipeline call.
ToKeep == DOMAIN markLog.node_map

\* C7 as claimed: after mark_pipeline the node carrying chief_settings is an
\* ancestor of, or equal to, every node marked run.
C7_ChiefAncestorOfEveryRunNode ==
  markLog.called =>
    \A c \in ChiefNodes(pipeline) : \A r \in RunNodes(pipeline) :
      c \in Ancestors(pipeline, {r})

\* C7 as amended: after mark_pipeline on an unmarked pipeline the node
\* carrying chief_settings is marked run, precedes every other run node in IR
\* order and has no run node among its proper ancestors.
C7_ChiefHasNoRunAncestor ==
  markLog.called =>
    \A c \in ChiefNodes(pipeline) :
      /\ c \in RunNodes(pipeline)
      /\ \A r \in RunNodes(pipeline) \ {c} :
           /\ c < r
           /\ r \notin Ancestors(pipeline, {c})

\* C7 witness: a marked pipeline with a run node that does not descend from
\* the chief.
C7_Witness ==
  /\ markLog.called
  /\ \E c \in ChiefNodes(pipeline) : \E r \in RunNodes(pipeline) :
       c \notin Ancestors(pipeline, {r})

\* C8: after mark_pipeline on an unmarked pipeline, exactly one node carries
\* chief_settings, the first kept node in IR order, if to_keep is non-empty;
\* none does if to_keep is empty.
C8_ChiefUniqueness ==
  markLog.called =>
    IF ToKeep = {}
    THEN ChiefNodes(pipeline) = {}
    ELSE ChiefNodes(pipeline) =
           {CHOOSE k \in ToKeep : \A m \in ToKeep : k <= m}

\* C8 witness: several nodes are kept and the first node of the IR is not.
C8_Witness ==
  /\ markLog.called
  /\ Cardinality(ToKeep) >= 2
  /\ 1 \notin ToKeep
  /\ Cardinality(ChiefNodes(pipeline)) = 1

\* C9: after mark_pipeline a node is marked run iff it is reachable
\* downstream from a from-node and upstream from a to-node (start nodes
\* included); every other node is marked skip.
C9_MarkerSelection ==
  markLog.called =>
    /\ RunNodes(pipeline) =
         Descendants(pipeline, markLog.from_node_ids)
           \cap Ancestors(pipeline, markLog.to_node_ids)
    /\ SkipNodes(pipeline) = NodeIdsOf(pipeline) \ RunNodes(pipeline)
    /\ ToKeep = RunNodes(pipeline)

\* C9 witness: run nodes that the two traversals reached (one is no
\* from-node, one is no to-node), beside a skipped node.
C9_Witness ==
  /\ markLog.called
  /\ \E r \in RunNodes(pipeline) : r \notin markLog.from_node_ids
  /\ \E r \in RunNodes(pipeline) : r \notin markLog.to_node_ids
  /\ SkipNodes(pipeline) # {}

\* C10 as claimed: every upstream id U outside to_keep of a kept node is in
\* excluded_direct_dependencies and is marked skip with child_in_partial_run;
\* skipped nodes that are no direct upstream of a kept node are not.
C10_EveryRemovedUpstreamRecorded ==
  markLog.called =>
    /\ \A n \in ToKeep : \A u \in pipeline[n].upstream_nodes \ ToKeep :
         /\ u \in markLog.excluded_direct_dependencies
         /\ u \in SkipNodes(pipeline) /\ u \in ChildInPartialRun(pipeline)
    /\ \A s \in SkipNodes(pipeline) :
         (\A n \in ToKeep : s \notin pipeline[n].upstream_nodes)
           => s \notin ChildInPartialRun(pipeline)

\* C10 as amended: every upstream id U outside to_keep of a kept node N that
\* produces one of N's input channels is in excluded_direct_dependencies and
\* is marked skip with child_in_partial_run; skipped nodes that are no
\* direct upstream of a kept node are not.
C10_RemovedProducersRecorded ==
  markLog.called =>
    /\ \A n \in ToKeep :
         \A u \in (pipeline[n].upstream_nodes \ ToKeep)
                    \cap pipeline[n].producers :
           /\ u \in markLog.excluded_direct_dependencies
           /\ u \in SkipNodes(pipeline) /\ u \in ChildInPartialRun(pipeline)
    /\ \A s \in SkipNodes(pipeline) :
         (\A n \in ToKeep : s \notin pipeline[n].upstream_nodes)
           => s \notin ChildInPartialRun(pipeline)

\* C10 witness: a kept node lost an upstream producer, which is now marked
\* as having a child in the partial run, and lost a task-only upstream too.
C10_Witness ==
  /\ markLog.called
  /\ \E n \in ToKeep :
       /\ \E u \in (pipeline[n].upstream_nodes \ ToKeep) :
            u \in pipeline[n].producers /\ u \in ChildInPartialRun(pipeline)
       /\ \E u \in (pipeline[n].upstream_nodes \ ToKeep) :
            u \notin pipeline[n].producers

\* C11 as claimed: after mark_pipeline no node marked run of the marked
\* pipeline has a downstream reference to a node outside to_keep.
C11_MarkedPipelineHasNoDanglingDownstream ==
  markLog.called =>
    \A r \in RunNodes(pipeline) :
      pipeline[r].downstream_nodes \subseteq ToKeep

\* C11 as amended: the copy of every kept node that mark_pipeline builds in
\* its node_map has no downstream reference outside to_keep, it keeps the
\* kept ones, and the marked pipeline itself keeps every downstream
\* reference it had: its downstream and upstream lists still mirror each
\* other.
C11_FixedCopiesHaveNoDanglingDownstream ==
  markLog.called =>
    /\ \A id \in ToKeep :
         markLog.node_map[id].downstream_nodes
           = pipeline[id].downstream_nodes \cap ToKeep
    /\ \A id \in NodeIdsOf(pipeline) :
         pipeline[id].downstream_nodes
           = {j \in NodeIdsOf(pipeline) : id \in pipeline[j].upstream_nodes}

\* C11 witness: a kept node whose downstream reference to a node outside
\* to_keep was dropped from its copy, next to one that was kept.
C11_Witness ==
  /\ markLog.called
  /\ \E id \in ToKeep :
       /\ pipeline[id].downstream_nodes \ ToKeep # {}
       /\ markLog.node_map[id].downstream_nodes # {}
       /\ markLog.node_map[id].downstream_nodes
            \cap (NodeIdsOf(pipeline) \ ToKeep) = {}


(***************************************************************************)
(* sync_pipeline_task_gen.py: tasks, executions, layers                    *)
(***************************************************************************)

NodeStates ==
  {"STARTING", "RUNNING", "COMPLETE", "FAILED", "SKIPPED", "STOPPING",
   "STOPPED"}

UpdateNodeStateTask(node_id, state, code, message) ==
  [type |-> "UpdateNodeStateTask", node_id |-> node_id, state |-> state,
   code |-> code, message |-> message, execution_id |-> 0,
   cache_context |-> FALSE]

ExecNodeTask(node_id, execution_id, cache_context) ==
  [type |-> "ExecNodeTask", node_id |-> node_id, state |-> "",
   code |-> "", message |-> "", execution_id |-> execution_id,
   cache_context |-> cache_context]

FinalizePipelineTask(code, message) ==
  [type |-> "FinalizePipelineTask", node_id |-> 0, state |-> "",
   code |-> code, message |-> message, execution_id |-> 0,
   cache_context |-> FALSE]

\* finalize_pipeline_task = None
NoTask ==
  [type |-> "None", node_id |-> 0, state |-> "", code |-> "",
   message |-> "", execution_id |-> 0, cache_context |-> FALSE]

is_update_node_state_task(task) == task.type = "UpdateNodeStateTask"
is_exec_node_task(task) == task.type = "ExecNodeTask"
is_finalize_pipeline_task(task) == task.type = "FinalizePipelineTask"

_abort_task(error_msg) == FinalizePipelineTask("ABORTED", error_msg)

\* The tasks of a list that satisfy a predicate on the type, in order.
RECURSIVE TasksOfType(_, _)
TasksOfType(tasks, type) ==
  IF tasks = <<>> THEN <<>>
  ELSE (IF Head(tasks).type = type THEN <<Head(tasks)>> ELSE <<>>)
         \o TasksOfType(Tail(tasks), type)

\* execution_lib.is_execution_successful / is_execution_active
is_execution_successful(e) == e.last_known_state \in {"COMPLETE", "CACHED"}
is_execution_active(e) == e.last_known_state \in {"NEW", "RUNNING"}

\* task_gen_utils.get_executions: the ids of the node's executions.
get_executions(execs, node) ==
  {i \in 1..Len(execs) : execs[i].node_id = node.id}

\* task_gen_utils.get_latest_execution: the most recent one, 0 for None.
get_latest_execution(node_executions) ==
  IF node_executions = {} THEN 0
  ELSE CHOOSE i \in node_executions : \A j \in node_executions : j <= i

\* task_gen_utils.generate_task_from_active_execution: the task rebuilt from
\* the node's active execution, NoTask for None.
generate_task_from_active_execution(execs, node, node_executions) ==
  LET active_executions ==
        {i \in node_executions : is_execution_active(execs[i])}
  IN IF active_executions = {} THEN NoTask
     ELSE ExecNodeTask(node.id, CHOOSE i \in active_executions : TRUE, FALSE)

\* execution_publish_utils.register_execution: a new execution, RUNNING.
register_execution(execs, node) ==
  Append(execs, [node_id |-> node.id, last_known_state |-> "RUNNING",
                 error_msg |-> ""])

\* A cached publish that marks every execution in the store.
publish_cached_execution_of_all(execs, execution_id) ==
  [i \in 1..Len(execs) |-> [execs[i] EXCEPT !.last_known_state = "CACHED"]]

\* execution_publish_utils.publish_cached_execution
publish_cached_execution(execs, execution_id) ==
  [execs EXCEPT ![execution_id].last_known_state = "CACHED"]

\* topsort.topsorted_layers: layer 0 holds the nodes without upstream
\* nodes, layer k those whose upstream nodes all lie in earlier layers;
\* each layer in IR order.
RECURSIVE LayersFrom(_, _, _)
LayersFrom(p, placed, layers) ==
  LET next == {id \in NodeIdsOf(p) \ placed :
                 p[id].upstream_nodes \subseteq placed}
  IN IF next = {} THEN layers
     ELSE CHOOSE all \in
            {LayersFrom(p, placed_now, layers_now) :
               placed_now \in {placed \cup next},
               layers_now \in {Append(layers, IdList(next))}} : TRUE

_topsorted_layers(p) == LayersFrom(p, {}, <<>>)

_terminal_node_ids(p, layers) ==
  {id \in UNION {{layers[k][i] : i \in 1..Len(layers[k])} :
                   k \in 1..Len(layers)} :
     p[id].downstream_nodes = {}}


(***************************************************************************)
(* sync_pipeline_task_gen.py: the decision for one node                    *)
(*                                                                         *)
(* env holds what the collaborators answer during one generate() call:     *)
(*   env.service_status[id]  ensure_node_services: RUNNING, SUCCESS, FAILED*)
(*   env.resolved[id]        generate_resolved_info: "None" (nothing to    *)
(*                           resolve), "NoInputArtifacts", "Resolved"      *)
(*   env.cached_outputs[id]  get_cached_outputs found outputs              *)
(***************************************************************************)

\* What _generate_tasks_for_node leaves behind: the tasks it returns, the
\* successful_node_ids set it updated in place, the metadata store's
\* executions, and the id of the execution it registered (0 for none).
Decision(tasks, successful_node_ids, execs, registered) ==
  [tasks |-> tasks, successful_node_ids |-> successful_node_ids,
   executions |-> execs, registered |-> registered]

\* A failure that marks the node failed without aborting the pipeline.
FailedTasksWithoutAbort(node_id, error_msg, abort_msg) ==
  <<UpdateNodeStateTask(node_id, "FAILED", "ABORTED", error_msg)>>

FailedTasks(node_id, error_msg, abort_msg) ==
  <<UpdateNodeStateTask(node_id, "FAILED", "ABORTED", error_msg),
    _abort_task(abort_msg)>>

\* A service check that takes no node for a pure service node.
_ensure_node_services_never_pure(node_id, env) == "None"

_ensure_node_services_if_pure(node_id, env) ==
  IF svcKind[node_id] = "pure" THEN env.service_status[node_id] ELSE "None"

_ensure_node_services_if_mixed(node_id, env) ==
  IF svcKind[node_id] = "mixed" THEN env.service_status[node_id] ELSE "None"

\* An upstream check that lets every node through.
_upstream_nodes_always_successful(node, successful_node_ids) == TRUE

_upstream_nodes_successful(node, successful_node_ids) ==
  node.upstream_nodes \subseteq successful_node_ids

_in_successful_nodes_cache(cached, node_id) == node_id \in cached

\* A task queue that reports no task tracked.
is_task_id_never_tracked(node_id) == FALSE

\* is_task_id_tracked_fn(exec_node_task_id_from_pipeline_node(pipeline, node))
is_task_id_tracked_fn(node_id) ==
  \E i \in 1..Len(queue) : queue[i].node_id = node_id

\* A resolution that registers the execution before it looks at the input
\* artifacts.
_resolve_inputs_registering_first(node, successful_node_ids, execs, env) ==
  IF env.resolved[node.id] = "None"
  THEN Decision(<<UpdateNodeStateTask(node.id, "SKIPPED", "", "")>>,
                successful_node_ids \cup {node.id}, execs, 0)
  ELSE IF env.resolved[node.id] = "NoInputArtifacts"
  THEN Decision(FailedTasks(node.id, "failure to resolve inputs",
                            "failure to resolve inputs"),
                successful_node_ids, register_execution(execs, node),
                Len(execs) + 1)
  ELSE IF node.enable_cache /\ env.cached_outputs[node.id]
  THEN Decision(<<UpdateNodeStateTask(node.id, "COMPLETE", "", "")>>,
                successful_node_ids \cup {node.id},
                publish_cached_execution(register_execution(execs, node),
                                         Len(execs) + 1),
                Len(execs) + 1)
  ELSE IF _ensure_node_services_if_mixed(node.id, env) = "FAILED"
  THEN Decision(FailedTasks(node.id, "associated service job failed",
                            "associated service job failed"),
                successful_node_ids, register_execution(execs, node),
                Len(execs) + 1)
  ELSE Decision(<<UpdateNodeStateTask(node.id, "RUNNING", "", ""),
                  ExecNodeTask(node.id, Len(execs) + 1, TRUE)>>,
                successful_node_ids, register_execution(execs, node),
                Len(execs) + 1)

\* A resolution whose cache hit does not mark the node successful.
_resolve_inputs_without_marking_cache_hits(node, successful_node_ids, execs, env) ==
  IF env.resolved[node.id] = "None"
  THEN Decision(<<UpdateNodeStateTask(node.id, "SKIPPED", "", "")>>,
                successful_node_ids \cup {node.id}, execs, 0)
  ELSE IF env.resolved[node.id] = "NoInputArtifacts"
  THEN Decision(FailedTasks(node.id, "failure to resolve inputs",
                            "failure to resolve inputs"),
                successful_node_ids, execs, 0)
  ELSE IF node.enable_cache /\ env.cached_outputs[node.id]
  THEN Decision(<<UpdateNodeStateTask(node.id, "COMPLETE", "", "")>>,
                successful_node_ids,
                publish_cached_execution(register_execution(execs, node),
                                         Len(execs) + 1),
                Len(execs) + 1)
  ELSE IF _ensure_node_services_if_mixed(node.id, env) = "FAILED"
  THEN Decision(FailedTasks(node.id, "associated service job failed",
                            "associated service job failed"),
                successful_node_ids, register_execution(execs, node),
                Len(execs) + 1)
  ELSE Decision(<<UpdateNodeStateTask(node.id, "RUNNING", "", ""),
                  ExecNodeTask(node.id, Len(execs) + 1, TRUE)>>,
                successful_node_ids, register_execution(execs, node),
                Len(execs) + 1)

_resolve_inputs_and_generate_tasks_for_node(node, successful_node_ids, execs, env) ==
  IF env.resolved[node.id] = "None"
  THEN Decision(<<UpdateNodeStateTask(node.id, "SKIPPED", "", "")>>,
                successful_node_ids \cup {node.id}, execs, 0)
  ELSE IF env.resolved[node.id] = "NoInputArtifacts"
  THEN Decision(FailedTasks(node.id, "failure to resolve inputs",
                            "failure to resolve inputs"),
                successful_node_ids, execs, 0)
  ELSE
    LET registered == register_execution(execs, node)
        execution_id == Len(registered)
    IN IF node.enable_cache /\ env.cached_outputs[node.id]
       THEN Decision(<<UpdateNodeStateTask(node.id, "COMPLETE", "", "")>>,
                     successful_node_ids \cup {node.id},
                     publish_cached_execution(registered, execution_id),
                     execution_id)
       ELSE IF _ensure_node_services_if_mixed(node.id, env) = "FAILED"
       THEN Decision(FailedTasks(node.id, "associated service job failed",
                                 "associated service job failed"),
                     successful_node_ids, registered, execution_id)
       ELSE Decision(<<UpdateNodeStateTask(node.id, "RUNNING", "", ""),
                       ExecNodeTask(node.id, execution_id, TRUE)>>,
                     successful_node_ids, registered, execution_id)

\* A pure service node that is never found successful.
PureServiceNodeTasksNeverSuccessful(node, service_status, successful_node_ids, execs) ==
  IF service_status = "FAILED"
  THEN Decision(FailedTasks(node.id, "service job failed",
                            "service job failed"),
                successful_node_ids, execs, 0)
  ELSE IF service_status = "SUCCESS"
  THEN Decision(<<UpdateNodeStateTask(node.id, "COMPLETE", "", "")>>,
                successful_node_ids, execs, 0)
  ELSE IF service_status = "RUNNING"
  THEN Decision(<<UpdateNodeStateTask(node.id, "RUNNING", "", "")>>,
                successful_node_ids, execs, 0)
  ELSE Decision(<<>>, successful_node_ids, execs, 0)

\* Lines 161-182: the node is a pure service node with this status.
PureServiceNodeTasks(node, service_status, successful_node_ids, execs) ==
  IF service_status = "FAILED"
  THEN Decision(FailedTasks(node.id, "service job failed",
                            "service job failed"),
                successful_node_ids, execs, 0)
  ELSE IF service_status = "SUCCESS"
  THEN Decision(<<UpdateNodeStateTask(node.id, "COMPLETE", "", "")>>,
                successful_node_ids \cup {node.id}, execs, 0)
  ELSE IF service_status = "RUNNING"
  THEN Decision(<<UpdateNodeStateTask(node.id, "RUNNING", "", "")>>,
                successful_node_ids, execs, 0)
  ELSE Decision(<<>>, successful_node_ids, execs, 0)

\* Lines 189-199: a task for the node is tracked by the task queue.
TrackedNodeTasks(node, successful_node_ids, execs, env) ==
  IF _ensure_node_services_if_mixed(node.id, env) = "FAILED"
  THEN Decision(FailedTasks(node.id, "associated service job failed",
                            "associated service job failed"),
                successful_node_ids, execs, 0)
  ELSE Decision(<<>>, successful_node_ids, execs, 0)

\* A variant that re-emits the task of an active execution without the
\* node's RUNNING update.
UntrackedNodeTasksReemittingBare(node, node_state, successful_node_ids, execs, env) ==
  IF /\ get_latest_execution(get_executions(execs, node)) # 0
     /\ is_execution_successful(
          execs[get_latest_execution(get_executions(execs, node))])
  THEN Decision(<<UpdateNodeStateTask(node.id, "COMPLETE", "", "")>>,
                successful_node_ids \cup {node.id}, execs, 0)
  ELSE IF /\ get_latest_execution(get_executions(execs, node)) # 0
          /\ ~is_execution_active(
                execs[get_latest_execution(get_executions(execs, node))])
          /\ node_state # "STARTING"
  THEN Decision(
         FailedTasks(
           node.id,
           execs[get_latest_execution(get_executions(execs, node))].error_msg,
           "node failed; error: "
             \o execs[get_latest_execution(get_executions(execs, node))]
                  .error_msg),
         successful_node_ids, execs, 0)
  ELSE IF generate_task_from_active_execution(
            execs, node, get_executions(execs, node)) # NoTask
  THEN Decision(<<generate_task_from_active_execution(
                    execs, node, get_executions(execs, node))>>,
                successful_node_ids, execs, 0)
  ELSE _resolve_inputs_and_generate_tasks_for_node(
         node, successful_node_ids, execs, env)

\* A variant that aborts on a failed latest execution whatever the node's
\* state.
UntrackedNodeTasksAbortingRetries(node, node_state, successful_node_ids, execs, env) ==
  IF /\ get_latest_execution(get_executions(execs, node)) # 0
     /\ execs[get_latest_execution(get_executions(execs, node))]
          .last_known_state \in {"FAILED", "CANCELED"}
  THEN Decision(
         FailedTasks(
           node.id,
           execs[get_latest_execution(get_executions(execs, node))].error_msg,
           "node failed; error: "
             \o execs[get_latest_execution(get_executions(execs, node))]
                  .error_msg),
         successful_node_ids, execs, 0)
  ELSE _resolve_inputs_and_generate_tasks_for_node(
         node, successful_node_ids, execs, env)

\* A variant that resolves inputs afresh whatever executions the node has.
UntrackedNodeTasksAlwaysResolving(node, node_state, successful_node_ids, execs, env) ==
  _resolve_inputs_and_generate_tasks_for_node(
    node, successful_node_ids, execs, env)

\* Lines 201-248: the node's executions decide.
UntrackedNodeTasks(node, node_state, successful_node_ids, execs, env) ==
  LET node_executions == get_executions(execs, node)
      latest_execution == get_latest_execution(node_executions)
      exec_node_task ==
        generate_task_from_active_execution(execs, node, node_executions)
  IN IF /\ latest_execution # 0
        /\ is_execution_successful(execs[latest_execution])
     THEN Decision(<<UpdateNodeStateTask(node.id, "COMPLETE", "", "")>>,
                   successful_node_ids \cup {node.id}, execs, 0)
     ELSE IF /\ latest_execution # 0
             /\ ~is_execution_active(execs[latest_execution])
             /\ node_state # "STARTING"
     THEN Decision(FailedTasks(node.id, execs[latest_execution].error_msg,
                               "node failed; error: "
                                 \o execs[latest_execution].error_msg),
                   successful_node_ids, execs, 0)
     ELSE IF exec_node_task # NoTask
     THEN Decision(<<UpdateNodeStateTask(node.id, "RUNNING", "", ""),
                     exec_node_task>>,
                   successful_node_ids, execs, 0)
     ELSE _resolve_inputs_and_generate_tasks_for_node(
            node, successful_node_ids, execs, env)

\* Lines 184-248: nothing new for a node whose task is in the task queue.
QueueStep(node, node_state, successful_node_ids, execs, env) ==
  IF is_task_id_tracked_fn(node.id)
  THEN TrackedNodeTasks(node, successful_node_ids, execs, env)
  ELSE UntrackedNodeTasks(node, node_state, successful_node_ids, execs, env)

\* A decision that does not look at the node's state for a stop.
_generate_tasks_for_node_ignoring_stops(node, successful_node_ids, execs, cached, env) ==
  IF _in_successful_nodes_cache(cached, node.id)
  THEN Decision(<<>>, successful_node_ids \cup {node.id}, execs, 0)
  ELSE IF ~_upstream_nodes_successful(node, successful_node_ids)
  THEN Decision(<<>>, successful_node_ids, execs, 0)
  ELSE IF _ensure_node_services_if_pure(node.id, env) # "None"
  THEN PureServiceNodeTasks(node, _ensure_node_services_if_pure(node.id, env),
                            successful_node_ids, execs)
  ELSE QueueStep(node, nodeState[node.id], successful_node_ids, execs, env)

_generate_tasks_for_node(node, successful_node_ids, execs, cached, env) ==
  IF _in_successful_nodes_cache(cached, node.id)
  THEN Decision(<<>>, successful_node_ids \cup {node.id}, execs, 0)
  ELSE IF ~_upstream_nodes_successful(node, successful_node_ids)
  THEN Decision(<<>>, successful_node_ids, execs, 0)
  ELSE
    LET node_state == nodeState[node.id]
        service_status == _ensure_node_services_if_pure(node.id, env)
    IN IF node_state \in {"STOPPING", "STOPPED"}
       THEN Decision(<<>>, successful_node_ids, execs, 0)
       ELSE IF service_status # "None"
       THEN PureServiceNodeTasks(node, service_status, successful_node_ids,
                                 execs)
       ELSE QueueStep(node, node_state, successful_node_ids, execs, env)


(***************************************************************************)
(* sync_pipeline_task_gen.py: generate()                                   *)
(***************************************************************************)

\* Lines 104-111: the node's tasks go to the three accumulators.
RECURSIVE SortTasks(_, _)
SortTasks(tasks, acc) ==
  IF tasks = <<>> THEN acc
  ELSE LET task == Head(tasks)
       IN SortTasks(
            Tail(tasks),
            IF is_update_node_state_task(task)
            THEN [acc EXCEPT !.update_node_state_tasks = Append(@, task)]
            ELSE IF is_exec_node_task(task)
            THEN [acc EXCEPT !.exec_node_tasks = Append(@, task)]
            ELSE [acc EXCEPT !.finalize_pipeline_task = task])

\* The LRU cache holds 1024 entries; the entries of one run of a pipeline
\* of this size never fill it.
\* A cache that never takes an entry.
_update_successful_nodes_cache_dropping(cached, node_ids) == cached

_update_successful_nodes_cache(cached, node_ids) == cached \cup node_ids

\* The node's active execution in the metadata store, 0 for none.
ActiveExecutionOf(execs, node_id) ==
  LET active == {i \in 1..Len(execs) :
                   execs[i].node_id = node_id /\ is_execution_active(execs[i])}
  IN IF active = {} THEN 0 ELSE CHOOSE i \in active : TRUE

\* What the walk has gathered, with what the call read for the node it
\* decides next: the node's state under the pipeline state lock ("" when
\* the node is decided before line 151) and whether the task queue tracks a
\* task of the node (FALSE when the node is decided before line 187).
NodeReads(acc, node_state, tracked) ==
  [acc EXCEPT !.node_state = node_state, !.tracked = tracked]

\* Lines 103-111: the outcome of one node joins what the walk has gathered.
\* The record of the decision keeps what the call read for the node, and
\* the node's latest and active execution in the metadata store when it was
\* decided.
RecordDecision(acc, node, d) ==
  SortTasks(
    d.tasks,
    [acc EXCEPT
       !.successful_node_ids = d.successful_node_ids,
       !.executions = d.executions,
       !.decisions =
         Append(@, [node_id |-> node.id,
                    tasks |-> d.tasks,
                    successful_node_ids |-> acc.successful_node_ids,
                    registered |-> d.registered,
                    node_state |-> acc.node_state,
                    tracked |-> acc.tracked,
                    latest |-> get_latest_execution(
                                 get_executions(acc.executions, node)),
                    active |-> ActiveExecutionOf(acc.executions, node.id)])])

\* What a call that nothing interleaves with reads for the node: its state
\* once it is neither cached nor waiting for an upstream node, and the task
\* queue once the node is neither stopping or stopped nor a pure service
\* node.
UndisturbedReads(acc, node, env) ==
  IF \/ _in_successful_nodes_cache(acc.cached, node.id)
     \/ ~_upstream_nodes_successful(node, acc.successful_node_ids)
  THEN NodeReads(acc, "", FALSE)
  ELSE NodeReads(
         acc, nodeState[node.id],
         /\ nodeState[node.id] \notin {"STOPPING", "STOPPED"}
         /\ _ensure_node_services_if_pure(node.id, env) = "None"
         /\ is_task_id_tracked_fn(node.id))

\* Lines 102-114: the nodes of one layer, until a finalize task appears.
RECURSIVE WalkLayer(_, _, _, _)
WalkLayer(layer_nodes, i, acc, env) ==
  IF i > Len(layer_nodes) \/ acc.finalize_pipeline_task # NoTask THEN acc
  ELSE CHOOSE walked \in
         {WalkLayer(layer_nodes, i + 1, recorded, env) :
            recorded \in
              {RecordDecision(
                 UndisturbedReads(acc, pipeline[layer_nodes[i]], env),
                 pipeline[layer_nodes[i]], d) :
                 d \in {_generate_tasks_for_node(
                          pipeline[layer_nodes[i]], acc.successful_node_ids,
                          acc.executions, acc.cached, env)}}} : TRUE

\* Lines 113-121: the successful nodes of a finished layer go to the cache,
\* unless a finalize task ended the walk.
CacheLayer(layer_nodes, acc) ==
  IF acc.finalize_pipeline_task # NoTask THEN acc
  ELSE [acc EXCEPT
          !.cached =
            _update_successful_nodes_cache(
              @, {layer_nodes[i] : i \in 1..Len(layer_nodes)}
                   \cap acc.successful_node_ids)]

\* Lines 101-121: the layers in order, until a finalize task appears.
RECURSIVE WalkLayers(_, _, _, _)
WalkLayers(layers, k, acc, env) ==
  IF k > Len(layers) \/ acc.finalize_pipeline_task # NoTask THEN acc
  ELSE CHOOSE walked \in
         {WalkLayers(layers, k + 1, cached_layer, env) :
            cached_layer \in
              {CacheLayer(layers[k], layer) :
                 layer \in {WalkLayer(layers[k], 1, acc, env)}}} : TRUE

\* A result that finalizes the pipeline once some terminal node is
\* successful.
AssembleResultOnAnyTerminal(update_node_state_tasks, exec_node_tasks, finalize_pipeline_task, terminal_node_ids, successful_node_ids) ==
  IF finalize_pipeline_task # NoTask
  THEN Append(update_node_state_tasks, finalize_pipeline_task)
  ELSE IF terminal_node_ids \cap successful_node_ids # {}
  THEN Append(update_node_state_tasks, FinalizePipelineTask("OK", ""))
  ELSE update_node_state_tasks \o exec_node_tasks

\* A result that keeps the exec tasks whatever else it returns.
AssembleResultKeepingExecTasks(update_node_state_tasks, exec_node_tasks, finalize_pipeline_task, terminal_node_ids, successful_node_ids) ==
  IF finalize_pipeline_task # NoTask
  THEN (update_node_state_tasks \o exec_node_tasks)
         \o <<finalize_pipeline_task>>
  ELSE IF terminal_node_ids \subseteq successful_node_ids
  THEN (update_node_state_tasks \o exec_node_tasks)
         \o <<FinalizePipelineTask("OK", "")>>
  ELSE update_node_state_tasks \o exec_node_tasks

\* Lines 123-134: the list generate() returns.
AssembleResult(update_node_state_tasks, exec_node_tasks, finalize_pipeline_task, terminal_node_ids, successful_node_ids) ==
  IF finalize_pipeline_task # NoTask
  THEN Append(update_node_state_tasks, finalize_pipeline_task)
  ELSE IF terminal_node_ids \subseteq successful_node_ids
  THEN Append(update_node_state_tasks, FinalizePipelineTask("OK", ""))
  ELSE update_node_state_tasks \o exec_node_tasks

\* What generate() returns and leaves behind, from what its walk gathered.
GenerateOutcome(acc, terminal_node_ids) ==
  [result |-> AssembleResult(acc.update_node_state_tasks,
                             acc.exec_node_tasks,
                             acc.finalize_pipeline_task,
                             terminal_node_ids, acc.successful_node_ids),
   executions |-> acc.executions,
   cached |-> acc.cached,
   decisions |-> acc.decisions,
   successful_node_ids |-> acc.successful_node_ids]

\* generate() when the process-wide cache holds the entries cached.
GenerateWith(cached, env) ==
  CHOOSE outcome \in
    UNION
      {{GenerateOutcome(acc, _terminal_node_ids(pipeline, layers)) :
          acc \in
            {WalkLayers(
               layers, 1,
               [successful_node_ids |-> {},
                update_node_state_tasks |-> <<>>,
                exec_node_tasks |-> <<>>,
                finalize_pipeline_task |-> NoTask,
                executions |-> executions,
                cached |-> cached,
                decisions |-> <<>>,
                node_state |-> "",
                tracked |-> FALSE],
               env)}} :
         layers \in {_topsorted_layers(pipeline)}} : TRUE

\* generate() under the collaborators' answers env: the returned list, and
\* what the call left in the metadata store and in the cache.
generate(env) == GenerateWith(_successful_nodes_cache, env)


(***************************************************************************)
(* One pipeline run: ticks of the generator and its collaborators          *)
(***************************************************************************)

\* The node's own records allow it to reach input resolution in the next
\* generate() call.
MayResolveAlone(node_id) ==
  /\ node_id \notin _successful_nodes_cache
  /\ svcKind[node_id] # "pure"
  /\ ~is_task_id_tracked_fn(node_id)
  /\ ActiveExecutionOf(executions, node_id) = 0
  /\ LET latest == get_latest_execution(
                     get_executions(executions, pipeline[node_id]))
     IN latest = 0 \/ ~is_execution_successful(executions[latest])

\* The next generate() call may find the node successful. Upstream nodes
\* have smaller ids.
RECURSIVE MayBeSuccessful(_)
MayBeSuccessful(node_id) ==
  \/ node_id \in _successful_nodes_cache
  \/ /\ \A u \in pipeline[node_id].upstream_nodes : MayBeSuccessful(u)
     /\ nodeState[node_id] \notin {"STOPPING", "STOPPED"}
     /\ \/ svcKind[node_id] = "pure"
        \/ MayResolveAlone(node_id)
        \/ LET latest == get_latest_execution(
                           get_executions(executions, pipeline[node_id]))
           IN /\ latest # 0
              /\ is_execution_successful(executions[latest])
              /\ ~is_task_id_tracked_fn(node_id)

\* The next generate() call may examine the node past its upstream check.
MayExamine(node_id) ==
  /\ node_id \notin _successful_nodes_cache
  /\ \A u \in pipeline[node_id].upstream_nodes : MayBeSuccessful(u)
  /\ nodeState[node_id] \notin {"STOPPING", "STOPPED"}

\* The node may reach input resolution in the next generate() call: only
\* then does the call ask the resolver and the cache engine about it.
MayResolve(node_id) == MayExamine(node_id) /\ MayResolveAlone(node_id)

\* The answers the collaborators can give during the next generate() call;
\* an answer nobody asks for has one fixed value.
EnvChoices ==
  LET ids == NodeIdsOf(pipeline)
  IN [service_status :
        {f \in [ids -> {"RUNNING", "SUCCESS", "FAILED"}] :
           \A id \in ids :
             (svcKind[id] = "none" \/ ~MayExamine(id))
               => f[id] = "RUNNING"},
      resolved :
        {f \in [ids -> {"None", "NoInputArtifacts", "Resolved"}] :
           \A id \in ids : ~MayResolve(id) => f[id] = "Resolved"},
      cached_outputs :
        {f \in [ids -> BOOLEAN] :
           \A id \in ids :
             ~(pipeline[id].enable_cache /\ MayResolve(id)) => ~f[id]}]

\* The caller applies the UpdateNodeStateTasks to the pipeline state.
RECURSIVE ApplyUpdates(_, _)
ApplyUpdates(tasks, states) ==
  IF tasks = <<>> THEN states
  ELSE CHOOSE applied \in
         {ApplyUpdates(rest, updated) :
            rest \in {Tail(tasks)},
            updated \in
              {IF is_update_node_state_task(Head(tasks))
               THEN [states EXCEPT ![Head(tasks).node_id] = Head(tasks).state]
               ELSE states}} : TRUE

\* The caller enqueues the ExecNodeTasks.
RECURSIVE Enqueue(_, _)
Enqueue(tasks, q) ==
  IF tasks = <<>> THEN q
  ELSE CHOOSE enqueued \in
         {Enqueue(rest, longer) :
            rest \in {Tail(tasks)},
            longer \in
              {IF is_exec_node_task(Head(tasks))
               THEN Append(q, [node_id |-> Head(tasks).node_id,
                               execution_id |-> Head(tasks).execution_id])
               ELSE q}} : TRUE

FinalizeCode(result) ==
  IF \E i \in 1..Len(result) : is_finalize_pipeline_task(result[i])
  THEN (CHOOSE t \in {result[i] : i \in 1..Len(result)} :
          is_finalize_pipeline_task(t)).code
  ELSE "None"

\* No generate() call is in progress and none has just been dispatched.
\* While a call is in progress pc tells which read of shared state comes
\* next: "state" (lines 151-157), "queue" (line 187), "store" (lines
\* 201-202); "returned" when the call has returned and the caller has not
\* yet dispatched the tasks. layer and index give the node being decided,
\* node_state what was read for it under the lock.
NoTick ==
  [called |-> FALSE, pc |-> "idle", result |-> <<>>, decisions |-> <<>>,
   successful_node_ids |-> {},
   layer |-> 0, index |-> 0, node_state |-> "",
   update_node_state_tasks |-> <<>>, exec_node_tasks |-> <<>>,
   finalize_pipeline_task |-> NoTask]

\* What the walk of the call in progress has gathered, with the metadata
\* store and the cache as they are now.
WalkOf(t) ==
  [successful_node_ids |-> t.successful_node_ids,
   update_node_state_tasks |-> t.update_node_state_tasks,
   exec_node_tasks |-> t.exec_node_tasks,
   finalize_pipeline_task |-> t.finalize_pipeline_task,
   executions |-> executions,
   cached |-> _successful_nodes_cache,
   decisions |-> t.decisions,
   node_state |-> "",
   tracked |-> FALSE]

\* A walk that goes on to the last node after a finalize task appeared.
RECURSIVE ResumeToTheEnd(_, _, _, _)
ResumeToTheEnd(layers, k, i, acc) ==
  IF k > Len(layers)
  THEN [pc |-> "returned", layer |-> k, index |-> i, acc |-> acc]
  ELSE IF i > Len(layers[k])
  THEN CHOOSE r \in
         {ResumeToTheEnd(layers, k + 1, 1, cached_layer) :
            cached_layer \in {CacheLayer(layers[k], acc)}} : TRUE
  ELSE IF _in_successful_nodes_cache(acc.cached, layers[k][i])
  THEN CHOOSE r \in
         {ResumeToTheEnd(layers, k, i + 1, recorded) :
            recorded \in
              {RecordDecision(
                 acc, pipeline[layers[k][i]],
                 Decision(<<>>, acc.successful_node_ids \cup {layers[k][i]},
                          acc.executions, 0))}} : TRUE
  ELSE IF ~_upstream_nodes_successful(pipeline[layers[k][i]],
                                      acc.successful_node_ids)
  THEN CHOOSE r \in
         {ResumeToTheEnd(layers, k, i + 1, recorded) :
            recorded \in
              {RecordDecision(
                 acc, pipeline[layers[k][i]],
                 Decision(<<>>, acc.successful_node_ids, acc.executions,
                          0))}} : TRUE
  ELSE [pc |-> "state", layer |-> k, index |-> i, acc |-> acc]

\* Lines 101-121 and 144-149 from the node at position i of layer k on, as
\* far as the call gets without reading shared state: nodes found in the
\* cache and nodes with an unsuccessful upstream node are passed, a finished
\* layer goes to the cache. The walk stops at the node whose state has to be
\* read next, or at its end.
RECURSIVE Resume(_, _, _, _)
Resume(layers, k, i, acc) ==
  IF k > Len(layers) \/ acc.finalize_pipeline_task # NoTask
  THEN [pc |-> "returned", layer |-> k, index |-> i, acc |-> acc]
  ELSE IF i > Len(layers[k])
  THEN CHOOSE r \in
         {Resume(layers, k + 1, 1, cached_layer) :
            cached_layer \in {CacheLayer(layers[k], acc)}} : TRUE
  ELSE IF _in_successful_nodes_cache(acc.cached, layers[k][i])
  THEN CHOOSE r \in
         {Resume(layers, k, i + 1, recorded) :
            recorded \in
              {RecordDecision(
                 acc, pipeline[layers[k][i]],
                 Decision(<<>>, acc.successful_node_ids \cup {layers[k][i]},
                          acc.executions, 0))}} : TRUE
  ELSE IF ~_upstream_nodes_successful(pipeline[layers[k][i]],
                                      acc.successful_node_ids)
  THEN CHOOSE r \in
         {Resume(layers, k, i + 1, recorded) :
            recorded \in
              {RecordDecision(
                 acc, pipeline[layers[k][i]],
                 Decision(<<>>, acc.successful_node_ids, acc.executions,
                          0))}} : TRUE
  ELSE [pc |-> "state", layer |-> k, index |-> i, acc |-> acc]

\* The call goes on from where r stands: its position and what it gathered
\* are kept, its writes to the metadata store and to the cache are made, and
\* at the end of the walk lines 123-134 assemble the list it returns.
Proceed(r, t) ==
  /\ tick' =
       [t EXCEPT
          !.pc = r.pc,
          !.layer = r.layer,
          !.index = r.index,
          !.node_state = "",
          !.decisions = r.acc.decisions,
          !.successful_node_ids = r.acc.successful_node_ids,
          !.update_node_state_tasks = r.acc.update_node_state_tasks,
          !.exec_node_tasks = r.acc.exec_node_tasks,
          !.finalize_pipeline_task = r.acc.finalize_pipeline_task,
          !.result =
             IF r.pc = "returned"
             THEN AssembleResult(
                    r.acc.update_node_state_tasks, r.acc.exec_node_tasks,
                    r.acc.finalize_pipeline_task,
                    _terminal_node_ids(pipeline, _topsorted_layers(pipeline)),
                    r.acc.successful_node_ids)
             ELSE <<>>]
  /\ executions' = r.acc.executions
  /\ _successful_nodes_cache' = r.acc.cached

\* The node the call in progress is deciding.
NodeInTurn == pipeline[_topsorted_layers(pipeline)[tick.layer][tick.index]]

\* The decision d for the node in turn is recorded with what the call read
\* for the node, and the walk goes on with the next node.
Decided(d, node_state, tracked) ==
  \E recorded \in
       {NodeReads(RecordDecision(acc, NodeInTurn, decision), "", FALSE) :
          acc \in {NodeReads(WalkOf(tick), node_state, tracked)},
          decision \in {d}} :
    \E r \in {Resume(layers, tick.layer, tick.index + 1, recorded) :
                layers \in {_topsorted_layers(pipeline)}} :
      Proceed(r, tick)

\* The answers of the collaborators when only this node is asked about.
AnswersFor(node_id, service_status, resolved, cached_outputs) ==
  [service_status |-> [id \in NodeIdsOf(pipeline) |-> service_status],
   resolved |-> [id \in NodeIdsOf(pipeline) |-> resolved],
   cached_outputs |-> [id \in NodeIdsOf(pipeline) |-> cached_outputs]]

\* The statuses the service job manager can report for the node.
ServiceStatuses(node_id, kind) ==
  IF svcKind[node_id] = kind THEN {"RUNNING", "SUCCESS", "FAILED"}
  ELSE {"RUNNING"}

\* generate() is called (lines 95-100); it walks to the first node whose
\* state it has to read.
GenerateCalled ==
  /\ phase = "running"
  /\ tick.pc = "idle"
  /\ \E r \in {Resume(layers, 1, 1, acc) :
                  layers \in {_topsorted_layers(pipeline)},
                  acc \in {WalkOf(NoTick)}} :
       Proceed(r, NoTick)
  /\ UNCHANGED <<pipeline, phase, markLog, svcKind, nodeState, queue, budget,
                 runtime>>

\* Lines 151-182: the node's state is read under the pipeline state lock. A
\* stopping or stopped node is passed; a pure service node is decided by
\* the status of its service job, reported as service_status.
NodeStateRead(service_status) ==
  /\ tick.pc = "state"
  /\ IF nodeState[NodeInTurn.id] \in {"STOPPING", "STOPPED"}
     THEN Decided(Decision(<<>>, tick.successful_node_ids, executions, 0),
                  nodeState[NodeInTurn.id], FALSE)
     ELSE IF _ensure_node_services_if_pure(
               NodeInTurn.id,
               AnswersFor(NodeInTurn.id, service_status, "Resolved", FALSE))
               # "None"
     THEN Decided(PureServiceNodeTasks(NodeInTurn, service_status,
                                       tick.successful_node_ids, executions),
                  nodeState[NodeInTurn.id], FALSE)
     ELSE /\ tick' = [tick EXCEPT !.pc = "queue",
                                  !.node_state = nodeState[NodeInTurn.id]]
          /\ UNCHANGED <<executions, _successful_nodes_cache>>
  /\ UNCHANGED <<pipeline, phase, markLog, svcKind, nodeState, queue, budget,
                 runtime>>

\* Lines 184-199: the task queue is asked whether a task of the node is
\* tracked; if so the node is decided, with its service job checked when it
\* is a mixed service node.
TaskQueueRead(service_status) ==
  /\ tick.pc = "queue"
  /\ IF is_task_id_tracked_fn(NodeInTurn.id)
     THEN Decided(TrackedNodeTasks(
                    NodeInTurn, tick.successful_node_ids, executions,
                    AnswersFor(NodeInTurn.id, service_status, "Resolved",
                               FALSE)),
                  tick.node_state, TRUE)
     ELSE /\ tick' = [tick EXCEPT !.pc = "store"]
          /\ UNCHANGED <<executions, _successful_nodes_cache>>
  /\ UNCHANGED <<pipeline, phase, markLog, svcKind, nodeState, queue, budget,
                 runtime>>

\* Lines 201-248: the node's executions are read from the metadata store
\* and decide, together with the node state read before; a node whose
\* inputs are resolved gets its execution registered.
NodeExecutionsRead(service_status, resolved, cached_outputs) ==
  /\ tick.pc = "store"
  /\ Decided(UntrackedNodeTasks(
               NodeInTurn, tick.node_state, tick.successful_node_ids,
               executions,
               AnswersFor(NodeInTurn.id, service_status, resolved,
                          cached_outputs)),
             tick.node_state, FALSE)
  /\ UNCHANGED <<pipeline, phase, markLog, svcKind, nodeState, queue, budget,
                 runtime>>

\* The caller dispatches what generate() returned: node states are updated,
\* exec tasks enqueued, the pipeline finalized.
Dispatch ==
  /\ tick.pc = "returned"
  /\ nodeState' = ApplyUpdates(tick.result, nodeState)
  /\ queue' = Enqueue(tick.result, queue)
  /\ phase' = IF FinalizeCode(tick.result) = "OK" THEN "finalized"
              ELSE IF FinalizeCode(tick.result) = "ABORTED" THEN "aborted"
              ELSE phase
  /\ tick' = [tick EXCEPT !.called = TRUE, !.pc = "idle"]
  /\ UNCHANGED <<pipeline, markLog, svcKind, executions,
                 _successful_nodes_cache, budget, runtime>>

\* What the cache engine can answer for the node in turn.
CachedOutputsAnswers == {c \in BOOLEAN : c => NodeInTurn.enable_cache}

\* One step of generate() with some answers of its collaborators.
Generate ==
  \/ GenerateCalled
  \/ /\ tick.pc = "state"
     /\ \E service_status \in ServiceStatuses(NodeInTurn.id, "pure") :
          NodeStateRead(service_status)
  \/ /\ tick.pc = "queue"
     /\ \E service_status \in ServiceStatuses(NodeInTurn.id, "mixed") :
          TaskQueueRead(service_status)
  \/ /\ tick.pc = "store"
     /\ \E service_status \in ServiceStatuses(NodeInTurn.id, "mixed") :
          \E resolved \in {"None", "NoInputArtifacts", "Resolved"} :
            \E cached_outputs \in CachedOutputsAnswers :
              NodeExecutionsRead(service_status, resolved, cached_outputs)

\* A step of another thread leaves a call in progress where it stands; the
\* record of a dispatched call is dropped.
CallInProgress == IF tick.pc = "idle" THEN NoTick ELSE tick

\* The executor of a queued task ends; the task leaves the queue.
ExecutorFinishes(i, state, error_msg) ==
  /\ phase \in {"running", "aborted"}
  /\ i \in 1..Len(queue)
  /\ is_execution_active(executions[queue[i].execution_id])
  /\ executions' = [executions EXCEPT
                      ![queue[i].execution_id].last_known_state = state,
                      ![queue[i].execution_id].error_msg = error_msg]
  /\ queue' = SubSeq(queue, 1, i - 1) \o SubSeq(queue, i + 1, Len(queue))
  /\ tick' = CallInProgress
  /\ UNCHANGED <<pipeline, phase, markLog, svcKind, nodeState,
                 _successful_nodes_cache, budget, runtime>>

\* An executor succeeds, or fails and leaves its error message; the
\* execution without an error message is the cancelled one of NodeStopped.
ExecutionEnds ==
  \E i \in 1..Len(queue) :
    \/ ExecutorFinishes(i, "COMPLETE", "")
    \/ ExecutorFinishes(i, "FAILED", "executor error")

\* A failed or stopped node is set back to STARTING; an aborted run resumes.
SetNodeStarting(node_id) ==
  /\ phase \in {"running", "aborted"}
  /\ nodeState[node_id] \in {"FAILED", "STOPPED"}
  /\ budget > 0
  /\ nodeState' = [nodeState EXCEPT ![node_id] = "STARTING"]
  /\ phase' = "running"
  /\ budget' = budget - 1
  /\ tick' = CallInProgress
  /\ UNCHANGED <<pipeline, markLog, svcKind, executions, queue,
                 _successful_nodes_cache, runtime>>

RetryNode == \E node_id \in NodeIdsOf(pipeline) : SetNodeStarting(node_id)

\* A stop request for a node that has not ended.
StopNode(node_id) ==
  /\ phase = "running"
  /\ nodeState[node_id] \in {"STARTING", "RUNNING"}
  /\ budget > 0
  /\ nodeState' = [nodeState EXCEPT ![node_id] = "STOPPING"]
  /\ budget' = budget - 1
  /\ tick' = CallInProgress
  /\ UNCHANGED <<pipeline, phase, markLog, svcKind, executions, queue,
                 _successful_nodes_cache, runtime>>

\* The stop is carried out: the node's task is cancelled.
NodeStopped(node_id) ==
  /\ nodeState[node_id] = "STOPPING"
  /\ nodeState' = [nodeState EXCEPT ![node_id] = "STOPPED"]
  /\ executions' =
       [i \in 1..Len(executions) |->
          IF executions[i].node_id = node_id
             /\ is_execution_active(executions[i])
          THEN [executions[i] EXCEPT !.last_known_state = "CANCELED"]
          ELSE executions[i]]
  /\ queue' = SelectSeq(queue, LAMBDA t : t.node_id # node_id)
  /\ tick' = CallInProgress
  /\ UNCHANGED <<pipeline, phase, markLog, svcKind,
                 _successful_nodes_cache, budget, runtime>>

StopRequest == \E node_id \in NodeIdsOf(pipeline) : StopNode(node_id)
StopDone == \E node_id \in NodeIdsOf(pipeline) : NodeStopped(node_id)

\* The orchestrator process restarts: the task queue and the successful
\* nodes cache live in its memory and are lost; the metadata store and the
\* pipeline state are durable.
OrchestratorRestart ==
  /\ phase = "running"
  /\ budget > 0
  /\ queue' = <<>>
  /\ _successful_nodes_cache' = {}
  /\ budget' = budget - 1
  /\ tick' = NoTick
  /\ UNCHANGED <<pipeline, phase, markLog, svcKind, nodeState, executions,
                 runtime>>

\* The upstream adjacency of the pipelines that are run: a chain and a join
\* of three nodes, and two unconnected nodes.
RunDags ==
  {<<{}, {1}, {2}>>, <<{}, {}, {1, 2}>>, <<{}, {}>>}

\* The node selected for a partial run of a pipeline that is run.
PartialRunNodes == {2}

\* No service node, or one pure or mixed service node.
ServiceKinds(n) ==
  {k \in [1..n -> {"none", "pure", "mixed"}] :
     Cardinality({i \in 1..n : k[i] # "none"}) <= 1}

\* Caching disabled everywhere, or enabled for one node.
CachingOptions(n) ==
  {c \in [1..n -> BOOLEAN] : Cardinality({i \in 1..n : c[i]}) <= 1}

Init ==
  /\ \E up \in RunDags :
       LET n == Len(up)
           unmarked(c) == CompiledPipeline(n, up, up, c)
       IN \/ /\ \E c \in CachingOptions(n) : pipeline = unmarked(c)
             /\ svcKind \in ServiceKinds(n)
             /\ (\E i \in 1..n : pipeline[i].enable_cache)
                  => \A i \in 1..n : svcKind[i] = "none"
             /\ markLog = NoMarkLog
          \/ /\ LET r == MarkResult(unmarked([i \in 1..n |-> FALSE]),
                                    PartialRunNodes, PartialRunNodes,
                                    _default_chief_settings)
                IN /\ pipeline = r.pipeline
                   /\ markLog =
                        [called |-> TRUE,
                         from_node_ids |-> r.from_node_ids,
                         to_node_ids |-> r.to_node_ids,
                         node_map |-> r.node_map,
                         excluded_direct_dependencies |->
                           r.excluded_direct_dependencies]
             /\ svcKind = [i \in 1..n |-> "none"]
  /\ phase = "running"
  /\ nodeState = [i \in 1..Len(pipeline) |-> "STARTING"]
  /\ executions = <<>>
  /\ queue = <<>>
  /\ _successful_nodes_cache = {}
  /\ tick = NoTick
  /\ budget = MaxDisturbances
  /\ runtime = NoRuntime

Next ==
  \/ Generate
  \/ Dispatch
  \/ ExecutionEnds
  \/ RetryNode
  \/ StopRequest
  \/ StopDone
  \/ OrchestratorRestart

Spec == Init /\ [][Next]_vars


(***************************************************************************)
(* Properties of generate()                                                *)
(***************************************************************************)

\* generate() can be called: the run is on and no call is in progress.
CanBeCalled == phase = "running" /\ tick.pc = "idle"

\* The tasks the node decisions of a tick emitted, in the order of the walk.
RECURSIVE DecisionTasks(_)
DecisionTasks(decisions) ==
  IF decisions = <<>> THEN <<>>
  ELSE Head(decisions).tasks \o DecisionTasks(Tail(decisions))

TaskSet(tasks) == {tasks[i] : i \in 1..Len(tasks)}

\* The decision launches its node: it emits RUNNING or an ExecNodeTask.
EmitsRunning(d) ==
  \E t \in TaskSet(d.tasks) :
    \/ is_exec_node_task(t)
    \/ is_update_node_state_task(t) /\ t.state = "RUNNING"

\* RUNNING plus the ExecNodeTask rebuilt from the active execution.
ReemittedTasks(node_id, execution_id) ==
  <<UpdateNodeStateTask(node_id, "RUNNING", "", ""),
    ExecNodeTask(node_id, execution_id, FALSE)>>

\* C1: if the list generate() returned holds a FinalizePipelineTask it holds
\* no ExecNodeTask, and the UpdateNodeStateTasks it holds are all those the
\* node decisions of the tick produced, in order.
C1_FinalizeExclusivity ==
  (tick.called /\ \E t \in TaskSet(tick.result) : is_finalize_pipeline_task(t))
    => /\ \A t \in TaskSet(tick.result) : ~is_exec_node_task(t)
       /\ TasksOfType(tick.result, "UpdateNodeStateTask")
            = TasksOfType(DecisionTasks(tick.decisions),
                          "UpdateNodeStateTask")

\* C1 witness: a tick that finalizes although one of its node decisions
\* produced an ExecNodeTask.
C1_Witness ==
  /\ tick.called
  /\ \E t \in TaskSet(tick.result) : is_finalize_pipeline_task(t)
  /\ \E t \in TaskSet(DecisionTasks(tick.decisions)) : is_exec_node_task(t)
  /\ \E t \in TaskSet(tick.result) : is_update_node_state_task(t)

\* C2: whenever a tick emits RUNNING or an ExecNodeTask for a node, every
\* upstream node of it is in successful_node_ids when the node is decided.
C2_TopologicalMonotonicity ==
  tick.called =>
    \A i \in 1..Len(tick.decisions) :
      EmitsRunning(tick.decisions[i])
        => pipeline[tick.decisions[i].node_id].upstream_nodes
             \subseteq tick.decisions[i].successful_node_ids

\* C2 witness: a node with upstream nodes is launched.
C2_Witness ==
  /\ tick.called
  /\ \E i \in 1..Len(tick.decisions) :
       /\ EmitsRunning(tick.decisions[i])
       /\ pipeline[tick.decisions[i].node_id].upstream_nodes # {}

\* C3: a tick to which the task queue answers that a task of node N is
\* tracked returns no ExecNodeTask for N and registers no execution for N;
\* the task queue never holds two ExecNodeTasks of one execution.
C3_NoDoubleLaunch ==
  /\ tick.called =>
       \A i \in 1..Len(tick.decisions) :
         tick.decisions[i].tracked =>
           /\ \A t \in TaskSet(tick.result) :
                is_exec_node_task(t)
                  => t.node_id # tick.decisions[i].node_id
           /\ tick.decisions[i].registered = 0
  /\ \A i, j \in 1..Len(queue) :
       queue[i].execution_id = queue[j].execution_id => i = j

\* C3 witness: a tick decides a node whose task the queue reports tracked
\* and whose execution is active.
C3_Witness ==
  /\ tick.called
  /\ \E i \in 1..Len(tick.decisions) :
       /\ tick.decisions[i].tracked
       /\ tick.decisions[i].active # 0

\* C4 as claimed: a tick that decides a node whose execution E is active
\* when the node is decided registers no execution for it and emits either nothing for it or
\* RUNNING plus the ExecNodeTask rebuilt from E.
C4_NothingOrReemit ==
  tick.called =>
    \A i \in 1..Len(tick.decisions) :
      LET d == tick.decisions[i]
          E == d.active
      IN E # 0 =>
           /\ d.registered = 0
           /\ \/ d.tasks = <<>>
              \/ d.tasks = ReemittedTasks(d.node_id, E)

\* C4 as amended: no node ever has two active executions, and a tick that
\* decides a node whose execution E is active then registers no execution
\* for it and emits for it nothing, or RUNNING plus the ExecNodeTask rebuilt
\* from E when no task of it is tracked, or FAILED plus the abort when a
\* task of it is tracked and its mixed service job failed.
C4_NoDuplicateExecution ==
  /\ \A i, j \in 1..Len(executions) :
       (/\ executions[i].node_id = executions[j].node_id
        /\ is_execution_active(executions[i])
        /\ is_execution_active(executions[j])) => i = j
  /\ tick.called =>
       \A i \in 1..Len(tick.decisions) :
         LET d == tick.decisions[i]
             E == d.active
         IN E # 0 =>
              /\ d.registered = 0
              /\ \/ d.tasks = <<>>
                 \/ /\ d.tasks = ReemittedTasks(d.node_id, E)
                    /\ ~d.tracked
                 \/ /\ d.tasks = FailedTasks(d.node_id,
                                             "associated service job failed",
                                             "associated service job failed")
                    /\ d.tracked
                    /\ svcKind[d.node_id] = "mixed"

\* C4 witness: a tick finds the node's execution active and no task of the
\* node tracked, and emits RUNNING plus the rebuilt ExecNodeTask.
C4_Witness ==
  /\ tick.called
  /\ \E i \in 1..Len(tick.decisions) :
       LET d == tick.decisions[i]
       IN /\ d.active # 0
          /\ ~d.tracked
          /\ d.tasks = ReemittedTasks(d.node_id, d.active)

\* C5 as claimed: in a pipeline marked by mark_pipeline a tick emits an
\* ExecNodeTask, or registers an execution, only for nodes marked run.
C5_OnlyRunNodesLaunched ==
  (markLog.called /\ tick.called) =>
    \A i \in 1..Len(tick.decisions) :
      (\/ tick.decisions[i].registered # 0
       \/ \E t \in TaskSet(tick.decisions[i].tasks) : is_exec_node_task(t))
        => tick.decisions[i].node_id \in RunNodes(pipeline)


\* The ExecNodeTasks of a returned list, in order.
ExecNodeTasksOf(result) == SelectSeq(result, is_exec_node_task)

\* The successful-nodes cache after the entry of the node was evicted.
Evicted(cached, node_id) == cached \ {node_id}

\* The collaborators' answers when generate() asks again about a node
\* whose cache entry was evicted: what made the node successful before,
\* SUCCESS from the service job manager for a pure service node, no inputs
\* to resolve for a node that was skipped.
AnswersRepeated(env, node_id) ==
  [env EXCEPT
     !.service_status[node_id] =
        IF svcKind[node_id] = "pure" THEN "SUCCESS" ELSE @,
     !.resolved[node_id] = "None"]

\* generate() launches the same nodes and finalizes the run the same way
\* with and without the cache entry of the node.
SameLaunchesAndFinalize(with, without) ==
  /\ ExecNodeTasksOf(with.result) = ExecNodeTasksOf(without.result)
  /\ FinalizeCode(with.result) = FinalizeCode(without.result)

\* C15 as claimed: in every state in which generate() can be called, for
\* every entry of the successful-nodes cache, generate() with the entry
\* evicted returns the same ExecNodeTasks and the same FinalizePipelineTask
\* as with the entry present.
C15_CacheIsAdvisory ==
  CanBeCalled =>
    \A node_id \in _successful_nodes_cache :
      \A env \in EnvChoices :
        SameLaunchesAndFinalize(
          GenerateWith(_successful_nodes_cache, env),
          GenerateWith(Evicted(_successful_nodes_cache, node_id),
                       AnswersRepeated(env, node_id)))


\* The node's latest execution in the metadata store, 0 for none.
LatestExecutionOf(node_id) ==
  get_latest_execution(get_executions(executions, pipeline[node_id]))

\* The call recorded in t decided the node with all its upstream nodes
\* successful.
DecidedWithUpstreamSuccessful(t, node_id) ==
  /\ t.called
  /\ \E i \in 1..Len(t.decisions) :
       /\ t.decisions[i].node_id = node_id
       /\ pipeline[node_id].upstream_nodes
            \subseteq t.decisions[i].successful_node_ids

\* The list ends with the node's FAILED update carrying the message and the
\* FinalizePipelineTask(ABORTED), and holds no ExecNodeTask.
EndsInFailureCascade(result, node_id, error_msg) ==
  /\ Len(result) >= 2
  /\ result[Len(result) - 1]
       = UpdateNodeStateTask(node_id, "FAILED", "ABORTED", error_msg)
  /\ is_finalize_pipeline_task(result[Len(result)])
  /\ result[Len(result)].code = "ABORTED"
  /\ \A i \in 1..Len(result) : ~is_exec_node_task(result[i])

\* The call read the executions of the node of decision d (lines 201-202):
\* it read a node state that is neither STOPPING nor STOPPED, the node is no
\* pure service node and the task queue did not report a task of it.
ReadExecutions(d) ==
  /\ d.node_state \notin {"", "STOPPING", "STOPPED"}
  /\ svcKind[d.node_id] # "pure"
  /\ ~d.tracked

\* The call found the latest execution of the node of decision d failed or
\* cancelled. An execution that has ended does not change any more.
FoundFailed(d) ==
  /\ ReadExecutions(d)
  /\ d.latest # 0
  /\ d.active = 0
  /\ ~is_execution_successful(executions[d.latest])

\* C16: when generate() decides a node for which it read a state other than
\* STARTING and whose latest execution it finds failed or cancelled, it
\* returns the node's UpdateNodeStateTask(FAILED, ABORTED, error_msg of the
\* execution) followed by FinalizePipelineTask(ABORTED), and no ExecNodeTask
\* for any node.
C16_FailureCascade ==
  tick.called =>
    \A i \in 1..Len(tick.decisions) :
      LET d == tick.decisions[i]
      IN (FoundFailed(d) /\ d.node_state # "STARTING")
           => EndsInFailureCascade(tick.result, d.node_id,
                                   executions[d.latest].error_msg)

\* A call re-emitted the task of a node's active execution and then met a
\* node whose execution failed with an error message: the list it returned
\* ends in the failure cascade and the re-emitted task is not in it.
C16_Witness ==
  /\ tick.called
  /\ \E i, j \in 1..Len(tick.decisions) :
       /\ \E k \in 1..Len(tick.decisions[i].tasks) :
            is_exec_node_task(tick.decisions[i].tasks[k])
       /\ tick.decisions[j].tasks
            = FailedTasks(tick.decisions[j].node_id, "executor error",
                          "node failed; error: executor error")
       /\ EndsInFailureCascade(tick.result, tick.decisions[j].node_id,
                               "executor error")


\* The record of the node's decision in the call recorded in t.
DecisionOf(t, node_id) ==
  t.decisions[CHOOSE i \in 1..Len(t.decisions) :
                t.decisions[i].node_id = node_id]

\* The tasks that launch the node's execution.
LaunchTasks(node_id, execution_id) ==
  <<UpdateNodeStateTask(node_id, "RUNNING", "", ""),
    ExecNodeTask(node_id, execution_id, TRUE)>>

\* The call read state STARTING for the node of decision d and found its
\* latest execution failed or cancelled.
Retried(d) == FoundFailed(d) /\ d.node_state = "STARTING"

\* C17 as claimed: the tick that decides a node in state STARTING whose
\* latest execution is failed or cancelled does not abort; it registers one
\* new execution of the node and returns UpdateNodeStateTask(RUNNING) and an
\* ExecNodeTask carrying the new execution id.
C17_StartingRetryLaunches ==
  tick.called =>
    \A i \in 1..Len(tick.decisions) :
      LET d == tick.decisions[i]
      IN Retried(d) =>
           /\ FinalizeCode(tick.result) # "ABORTED"
           /\ d.registered > d.latest
           /\ \A k \in 1..2 :
                LaunchTasks(d.node_id, d.registered)[k]
                  \in TaskSet(tick.result)

\* C17: for such a node the failed branch is skipped and fresh resolution
\* decides. The node's tasks are those of one of resolution's outcomes:
\* SKIPPED, FAILED with the abort for unresolved inputs or a failed service,
\* COMPLETE from cached outputs, or RUNNING with an ExecNodeTask. The last
\* comes with exactly one new execution of the node, whose id the
\* ExecNodeTask carries, and generate() returns both tasks unless a node
\* decided later in the same call finalizes the pipeline.
C17_StartingRetryResolves ==
  tick.called =>
    \A i \in 1..Len(tick.decisions) :
      LET d == tick.decisions[i]
      IN Retried(d) =>
           /\ d.tasks \in
                {LaunchTasks(d.node_id, d.registered),
                 <<UpdateNodeStateTask(d.node_id, "SKIPPED", "", "")>>,
                 <<UpdateNodeStateTask(d.node_id, "COMPLETE", "", "")>>,
                 FailedTasks(d.node_id, "failure to resolve inputs",
                             "failure to resolve inputs"),
                 FailedTasks(d.node_id, "associated service job failed",
                             "associated service job failed")}
           /\ d.tasks = LaunchTasks(d.node_id, d.registered)
                => /\ {e \in get_executions(executions, pipeline[d.node_id]) :
                         e > d.latest} = {d.registered}
                   /\ FinalizeCode(tick.result) = "None"
                        => \A k \in 1..2 :
                             d.tasks[k] \in TaskSet(tick.result)

\* A node with a failed execution was launched again with a new execution:
\* the call registered it and returned its ExecNodeTask.
C17_Witness ==
  /\ tick.called
  /\ \E i \in 1..Len(tick.decisions) :
       LET d == tick.decisions[i]
       IN /\ d.registered # 0
          /\ d.tasks = LaunchTasks(d.node_id, d.registered)
          /\ ExecNodeTask(d.node_id, d.registered, TRUE)
               \in TaskSet(tick.result)
          /\ \E e \in get_executions(executions, pipeline[d.node_id]) :
               /\ e < d.registered
               /\ executions[e].last_known_state = "FAILED"


\* The pipeline A -> B -> C (nodes 1, 2, 3) with caching off.
LinearPipeline ==
  CompiledPipeline(3, <<{}, {1}, {2}>>, <<{}, {1}, {2}>>,
                   [i \in 1..3 |-> FALSE])

\* The run of the linear pipeline when the executions of its first k nodes
\* have succeeded, each before the next tick, nothing else happened and no
\* call is in progress.
LinearState(k) ==
  /\ tick.pc = "idle"
  /\ pipeline = LinearPipeline
  /\ markLog = NoMarkLog
  /\ svcKind = [i \in 1..3 |-> "none"]
  /\ phase = "running"
  /\ budget = MaxDisturbances
  /\ queue = <<>>
  /\ executions =
       [i \in 1..k |->
          [node_id |-> i, error_msg |-> "", last_known_state |-> "COMPLETE"]]
  /\ nodeState =
       [i \in 1..3 |->
          IF i < k THEN "COMPLETE" ELSE IF i = k THEN "RUNNING"
          ELSE "STARTING"]

\* What tick k + 1 of the linear run returns.
LinearResult(k) ==
  (IF k >= 1 THEN <<UpdateNodeStateTask(k, "COMPLETE", "", "")>> ELSE <<>>)
    \o (IF k < 3 THEN LaunchTasks(k + 1, k + 1)
        ELSE <<FinalizePipelineTask("OK", "")>>)

\* The answers with which the resolver resolves the inputs of every node.
InputsResolved ==
  {env \in EnvChoices :
     \A id \in NodeIdsOf(pipeline) : env.resolved[id] = "Resolved"}

\* C18: in the run of the fresh pipeline A -> B -> C with caching off in
\* which each launched execution succeeds before the next tick, tick 1
\* returns RUNNING and the ExecNodeTask for A only, tick 2 COMPLETE(A) and
\* RUNNING and the ExecNodeTask for B, tick 3 COMPLETE(B) and RUNNING and
\* the ExecNodeTask for C, tick 4 COMPLETE(C) and FinalizePipelineTask(OK);
\* no tick returns a task for a node whose COMPLETE an earlier tick
\* returned.
C18_LinearRunSequence ==
  \A k \in 0..3 :
    LinearState(k) =>
      /\ InputsResolved # {}
      /\ \A env \in InputsResolved : generate(env).result = LinearResult(k)

\* The linear run reached its fourth tick, which completed C and finalized
\* the pipeline, after three executions that succeeded in turn.
C18_Witness ==
  /\ pipeline = LinearPipeline
  /\ phase = "finalized"
  /\ budget = MaxDisturbances
  /\ Len(executions) = 3
  /\ \A i \in 1..3 :
       /\ executions[i].node_id = i
       /\ executions[i].last_known_state = "COMPLETE"
  /\ tick.result = LinearResult(3)
  /\ nodeState = [i \in 1..3 |-> "COMPLETE"]


\* The nodes for which the call with outcome g used cached outputs: their
\* decision registered an execution and returned COMPLETE alone.
CacheHits(g) ==
  {g.decisions[i].node_id : i \in
     {j \in 1..Len(g.decisions) :
        /\ g.decisions[j].registered # 0
        /\ g.decisions[j].tasks
             = <<UpdateNodeStateTask(g.decisions[j].node_id, "COMPLETE",
                                     "", "")>>}}

\* The nodes downstream of a cache hit whose other upstream nodes are
\* successful at the end of the call.
UnblockedByCacheHit(g) ==
  {id \in NodeIdsOf(pipeline) :
     /\ pipeline[id].upstream_nodes \cap CacheHits(g) # {}
     /\ pipeline[id].upstream_nodes
          \subseteq g.successful_node_ids \cup CacheHits(g)}

\* The call with outcome g published a cached execution for every cache
\* hit, counted the node successful and returned no ExecNodeTask for it.
CacheHitsPublished(g) ==
  \A i \in 1..Len(g.decisions) :
    g.decisions[i].node_id \in CacheHits(g) =>
      /\ g.executions[g.decisions[i].registered].node_id
           = g.decisions[i].node_id
      /\ g.executions[g.decisions[i].registered].last_known_state = "CACHED"
      /\ g.decisions[i].node_id \in g.successful_node_ids
      /\ \A k \in 1..Len(g.result) :
           is_exec_node_task(g.result[k])
             => g.result[k].node_id # g.decisions[i].node_id

\* The call with outcome g decided the node and launched it: its RUNNING
\* update and its ExecNodeTask are returned.
LaunchedIn(g, node_id) ==
  \E i \in 1..Len(g.decisions) :
    /\ g.decisions[i].node_id = node_id
    /\ g.decisions[i].tasks = LaunchTasks(node_id, g.decisions[i].registered)
    /\ \A k \in 1..2 : g.decisions[i].tasks[k] \in TaskSet(g.result)

\* Before the call the node has not been touched, and the collaborators
\* let it start: inputs resolve, no cached outputs are used, its service
\* has not failed.
StartsFresh(env, node_id) ==
  /\ nodeState[node_id] = "STARTING"
  /\ svcKind[node_id] # "pure"
  /\ ~is_task_id_tracked_fn(node_id)
  /\ get_executions(executions, pipeline[node_id]) = {}
  /\ ~_in_successful_nodes_cache(_successful_nodes_cache, node_id)
  /\ env.resolved[node_id] = "Resolved"
  /\ ~(pipeline[node_id].enable_cache /\ env.cached_outputs[node_id])
  /\ _ensure_node_services_if_mixed(node_id, env) # "FAILED"

\* The answers with which the cache engine finds cached outputs for some
\* node.
CacheHitAnswers ==
  IF \A id \in NodeIdsOf(pipeline) : ~pipeline[id].enable_cache THEN {}
  ELSE {env \in EnvChoices :
          \E id \in NodeIdsOf(pipeline) : env.cached_outputs[id]}

\* C19 as claimed: when generate() finds cached outputs for a node B, it
\* publishes a cached execution, returns COMPLETE for B and no ExecNodeTask
\* for B, and every downstream node whose upstream nodes are all successful
\* by then gets RUNNING and an ExecNodeTask in the same call.
C19_CacheHitLaunchesDownstream ==
  CanBeCalled =>
    \A env \in CacheHitAnswers :
      \A g \in {generate(env)} :
        /\ CacheHitsPublished(g)
        /\ \A node_id \in UnblockedByCacheHit(g) : LaunchedIn(g, node_id)

\* C19: the same, where the downstream node is decided in the same call by
\* the steps every node goes through; it gets RUNNING and an ExecNodeTask
\* when it starts fresh, and the call returns them unless it ends with a
\* FinalizePipelineTask.
C19_CacheHitDecidesDownstream ==
  CanBeCalled =>
    \A env \in CacheHitAnswers :
      \A g \in {generate(env)} :
        /\ CacheHitsPublished(g)
        /\ \A node_id \in UnblockedByCacheHit(g) :
             \/ FinalizeCode(g.result) = "ABORTED"
             \/ /\ DecidedWithUpstreamSuccessful(
                      [called |-> TRUE, decisions |-> g.decisions], node_id)
                /\ StartsFresh(env, node_id) => LaunchedIn(g, node_id)

\* A call used cached outputs for a node and launched a node downstream of
\* it.
C19_Witness ==
  /\ tick.called
  /\ \E i, j \in 1..Len(tick.decisions) :
       /\ tick.decisions[i].registered # 0
       /\ tick.decisions[i].tasks
            = <<UpdateNodeStateTask(tick.decisions[i].node_id, "COMPLETE",
                                    "", "")>>
       /\ executions[tick.decisions[i].registered].last_known_state
            = "CACHED"
       /\ tick.decisions[i].node_id
            \in pipeline[tick.decisions[j].node_id].upstream_nodes
       /\ tick.decisions[j].tasks
            = LaunchTasks(tick.decisions[j].node_id,
                          tick.decisions[j].registered)
       /\ \A k \in 1..2 :
            tick.decisions[j].tasks[k] \in TaskSet(tick.result)


\* The nodes without downstream nodes.
TerminalNodes == {id \in NodeIdsOf(pipeline) : pipeline[id].downstream_nodes = {}}

\* No decision of the call produced a FinalizePipelineTask.
NoDecisionFinalized(decisions) ==
  TasksOfType(DecisionTasks(decisions), "FinalizePipelineTask") = <<>>

\* The list lines 123-134 return when no decision finalized: the update
\* tasks of the decisions in order, then FinalizePipelineTask(OK) if every
\* terminal node is successful, else the ExecNodeTasks in order.
ResultWithoutAbort(decisions, successful_node_ids) ==
  IF TerminalNodes \subseteq successful_node_ids
  THEN Append(TasksOfType(DecisionTasks(decisions), "UpdateNodeStateTask"),
              FinalizePipelineTask("OK", ""))
  ELSE TasksOfType(DecisionTasks(decisions), "UpdateNodeStateTask")
         \o TasksOfType(DecisionTasks(decisions), "ExecNodeTask")

\* C20: when no per-node decision produced a FinalizePipelineTask,
\* generate() returns FinalizePipelineTask(OK) as its last task if and only
\* if every node without downstream nodes is in successful_node_ids at the
\* end of the walk; then the list is the update tasks and that task,
\* otherwise the update tasks followed by the ExecNodeTasks.
C20_SuccessfulFinalizationRule ==
  (tick.called /\ NoDecisionFinalized(tick.decisions)) =>
    /\ tick.result
         = ResultWithoutAbort(tick.decisions, tick.successful_node_ids)
    /\ FinalizeCode(tick.result) = "OK"
         <=> TerminalNodes \subseteq tick.successful_node_ids
    /\ FinalizeCode(tick.result) = "OK"
         => tick.result[Len(tick.result)] = FinalizePipelineTask("OK", "")

\* A call finalized a pipeline with two terminal nodes when the second of
\* them had become successful.
C20_Witness ==
  /\ tick.called
  /\ phase = "finalized"
  /\ NoDecisionFinalized(tick.decisions)
  /\ Cardinality(TerminalNodes) = 2
  /\ tick.result[Len(tick.result)] = FinalizePipelineTask("OK", "")
  /\ \E i \in 1..Len(tick.result) :
       /\ is_update_node_state_task(tick.result[i])
       /\ tick.result[i].node_id \in TerminalNodes
       /\ tick.result[i].state = "COMPLETE"


\* Before the call nothing keeps generate() from resolving the inputs of
\* the node of decision d afresh: the node is not cached, its upstream nodes
\* are successful when it is decided, it is not stopping or stopped, not a
\* pure service node, not tracked, and it has no successful or active
\* execution and no failed one that aborts.
ReachesResolution(d) ==
  /\ ~_in_successful_nodes_cache(_successful_nodes_cache, d.node_id)
  /\ pipeline[d.node_id].upstream_nodes \subseteq d.successful_node_ids
  /\ nodeState[d.node_id] \notin {"STOPPING", "STOPPED"}
  /\ svcKind[d.node_id] # "pure"
  /\ ~is_task_id_tracked_fn(d.node_id)
  /\ ActiveExecutionOf(executions, d.node_id) = 0
  /\ \/ LatestExecutionOf(d.node_id) = 0
     \/ /\ ~is_execution_successful(executions[LatestExecutionOf(d.node_id)])
        /\ nodeState[d.node_id] = "STARTING"

\* The answers with which the resolver returns resolved info without input
\* artifacts for some node.
UnresolvedAnswers ==
  {env \in EnvChoices :
     \E id \in NodeIdsOf(pipeline) : env.resolved[id] = "NoInputArtifacts"}

\* C21: when generate() resolves the inputs of a node and the resolver
\* returns resolved info without input artifacts, the call registers no
\* execution for the node and returns a list that ends with
\* UpdateNodeStateTask(node, FAILED, ABORTED) and FinalizePipelineTask(ABORTED).
C21_ResolutionFailureBecomesTasks ==
  [](CanBeCalled =>
      \A env \in UnresolvedAnswers :
        \A g \in {generate(env)} :
          \A i \in 1..Len(g.decisions) :
            (/\ ReachesResolution(g.decisions[i])
             /\ env.resolved[g.decisions[i].node_id] = "NoInputArtifacts")
              => /\ g.decisions[i].registered = 0
                 /\ get_executions(g.executions,
                                   pipeline[g.decisions[i].node_id])
                      = get_executions(executions,
                                       pipeline[g.decisions[i].node_id])
                 /\ EndsInFailureCascade(g.result, g.decisions[i].node_id,
                                         "failure to resolve inputs"))

\* A call registered an execution for one node and then failed to resolve
\* the inputs of another: it registered nothing for that node and the run
\* is aborted.
C21_Witness ==
  /\ tick.called
  /\ phase = "aborted"
  /\ \E i, j \in 1..Len(tick.decisions) :
       /\ tick.decisions[i].registered # 0
       /\ tick.decisions[j].registered = 0
       /\ tick.decisions[j].tasks
            = FailedTasks(tick.decisions[j].node_id,
                          "failure to resolve inputs",
                          "failure to resolve inputs")
       /\ get_executions(executions, pipeline[tick.decisions[j].node_id])
            = {}
       /\ EndsInFailureCascade(tick.result, tick.decisions[j].node_id,
                               "failure to resolve inputs")


\* The tasks of the given type for the node in a returned list.
TasksFor(result, type, node_id) ==
  SelectSeq(result, LAMBDA t : t.type = type /\ t.node_id = node_id)

\* C22: in the list one generate() call returns, every node has at most one
\* UpdateNodeStateTask and at most one ExecNodeTask, and every ExecNodeTask
\* of a node comes with the UpdateNodeStateTask(RUNNING) of the same node.
C22_OneDecisionPerNode ==
  tick.called =>
    \A node_id \in NodeIdsOf(pipeline) :
      /\ Len(TasksFor(tick.result, "UpdateNodeStateTask", node_id)) <= 1
      /\ Len(TasksFor(tick.result, "ExecNodeTask", node_id)) <= 1
      /\ TasksFor(tick.result, "ExecNodeTask", node_id) # <<>>
           => UpdateNodeStateTask(node_id, "RUNNING", "", "")
                \in TaskSet(tick.result)
      /\ Cardinality({i \in 1..Len(tick.decisions) :
                        tick.decisions[i].node_id = node_id}) <= 1

\* A call returned the tasks of two nodes: the re-emitted ExecNodeTask of a
\* node whose execution is active and the ExecNodeTask of a node it
\* launched, each with the node's RUNNING update.
C22_Witness ==
  /\ tick.called
  /\ \E m, n \in {tick.decisions[i].node_id :
                    i \in 1..Len(tick.decisions)} :
       /\ m # n
       /\ DecisionOf(tick, m).active # 0
       /\ TasksFor(tick.result, "ExecNodeTask", m)
            = <<ExecNodeTask(m, DecisionOf(tick, m).active, FALSE)>>
       /\ TasksFor(tick.result, "UpdateNodeStateTask", m)
            = <<UpdateNodeStateTask(m, "RUNNING", "", "")>>
       /\ DecisionOf(tick, n).registered # 0
       /\ TasksFor(tick.result, "ExecNodeTask", n)
            = <<ExecNodeTask(n, DecisionOf(tick, n).registered, TRUE)>>
       /\ TasksFor(tick.result, "UpdateNodeStateTask", n)
            = <<UpdateNodeStateTask(n, "RUNNING", "", "")>>


\* The answers with which the resolver finds nothing to resolve for some
\* node.
NothingToResolveAnswers ==
  {env \in EnvChoices :
     \E id \in NodeIdsOf(pipeline) : env.resolved[id] = "None"}

\* Every node downstream of the node that the call with outcome g decided
\* found the node among the successful ones.
SuccessfulUpstreamIn(g, node_id) ==
  \A j \in 1..Len(g.decisions) :
    node_id \in pipeline[g.decisions[j].node_id].upstream_nodes
      => node_id \in g.decisions[j].successful_node_ids

\* The call with outcome g skipped the node of its decision i: it returned
\* SKIPPED for it, registered no execution, counted it successful for the
\* nodes downstream and for finalization.
SkippedInTick(g, i) ==
  /\ g.decisions[i].tasks
       = <<UpdateNodeStateTask(g.decisions[i].node_id, "SKIPPED", "", "")>>
  /\ g.decisions[i].registered = 0
  /\ get_executions(g.executions, pipeline[g.decisions[i].node_id])
       = get_executions(executions, pipeline[g.decisions[i].node_id])
  /\ g.decisions[i].node_id \in g.successful_node_ids
  /\ SuccessfulUpstreamIn(g, g.decisions[i].node_id)
  /\ (/\ NoDecisionFinalized(g.decisions)
      /\ TerminalNodes \ {g.decisions[i].node_id}
           \subseteq g.successful_node_ids)
       => FinalizeCode(g.result) = "OK"

\* C24 as claimed: when generate() resolves the inputs of a node and the
\* resolver returns nothing, the call returns UpdateNodeStateTask(SKIPPED)
\* for the node, registers no execution, adds the node to
\* successful_node_ids, and a skipped terminal node counts toward
\* FinalizePipelineTask(OK); the nodes downstream find the node successful
\* in that call and in every later call, that is whenever the node's state
\* is SKIPPED.
C24_SkippedCountsAsSuccess ==
  CanBeCalled =>
    /\ \A env \in NothingToResolveAnswers :
         \A g \in {generate(env)} :
           \A i \in 1..Len(g.decisions) :
             (/\ ReachesResolution(g.decisions[i])
              /\ env.resolved[g.decisions[i].node_id] = "None")
               => SkippedInTick(g, i)
    /\ (\E id \in NodeIdsOf(pipeline) : nodeState[id] = "SKIPPED")
         => \A env \in EnvChoices :
              \A g \in {generate(env)} :
                \A node_id \in NodeIdsOf(pipeline) :
                  nodeState[node_id] = "SKIPPED"
                    => SuccessfulUpstreamIn(g, node_id)


\* The answers of the collaborators for a pipeline with a pure service
\* node.
PureServiceAnswers ==
  IF \A id \in NodeIdsOf(pipeline) : svcKind[id] # "pure" THEN {}
  ELSE EnvChoices

\* Decision d is that of a pure service node that is not cached, not
\* stopping or stopped, and whose upstream nodes are successful.
PureServiceDecided(d) ==
  /\ svcKind[d.node_id] = "pure"
  /\ ~_in_successful_nodes_cache(_successful_nodes_cache, d.node_id)
  /\ pipeline[d.node_id].upstream_nodes \subseteq d.successful_node_ids
  /\ nodeState[d.node_id] \notin {"STOPPING", "STOPPED"}

\* The metadata store with one more execution of the node, failed.
WithFailedExecution(execs, node_id) ==
  Append(execs, [node_id |-> node_id, last_known_state |-> "FAILED",
                 error_msg |-> "executor error"])

\* C25: for a pure service node that is not cached, not STOPPING or STOPPED
\* and whose upstream nodes are successful, generate() returns no
\* ExecNodeTask and registers no execution, and its decision does not
\* depend on the node's executions in the metadata store; service status
\* FAILED gives UpdateNodeStateTask(FAILED, ABORTED) and
\* FinalizePipelineTask(ABORTED), SUCCESS gives UpdateNodeStateTask(COMPLETE)
\* and the node in successful_node_ids, RUNNING gives
\* UpdateNodeStateTask(RUNNING) alone.
C25_PureServiceNodes ==
  CanBeCalled =>
    \A env \in PureServiceAnswers :
      \A g \in {generate(env)} :
        \A i \in 1..Len(g.decisions) :
          \A d \in {g.decisions[i]} :
            PureServiceDecided(d) =>
              /\ d.registered = 0
              /\ get_executions(g.executions, pipeline[d.node_id])
                   = get_executions(executions, pipeline[d.node_id])
              /\ TasksFor(g.result, "ExecNodeTask", d.node_id) = <<>>
              /\ \A k \in 1..Len(d.tasks) : ~is_exec_node_task(d.tasks[k])
              /\ _generate_tasks_for_node(
                   pipeline[d.node_id], d.successful_node_ids,
                   WithFailedExecution(executions, d.node_id),
                   _successful_nodes_cache, env).tasks = d.tasks
              /\ env.service_status[d.node_id] = "FAILED"
                   => /\ d.tasks = FailedTasks(d.node_id,
                                               "service job failed",
                                               "service job failed")
                      /\ EndsInFailureCascade(g.result, d.node_id,
                                              "service job failed")
              /\ env.service_status[d.node_id] = "SUCCESS"
                   => /\ d.tasks = <<UpdateNodeStateTask(d.node_id,
                                                         "COMPLETE", "", "")>>
                      /\ d.node_id \in g.successful_node_ids
              /\ env.service_status[d.node_id] = "RUNNING"
                   => /\ d.tasks = <<UpdateNodeStateTask(d.node_id,
                                                         "RUNNING", "", "")>>
                      /\ d.node_id \notin g.successful_node_ids

\* A call found the service of a pure service node successful: it returned
\* COMPLETE for it, the store holds no execution of it, and the node
\* downstream of it was launched in the same call.
C25_Witness ==
  /\ tick.called
  /\ \E m, n \in {tick.decisions[i].node_id :
                    i \in 1..Len(tick.decisions)} :
       /\ svcKind[m] = "pure"
       /\ m \in pipeline[n].upstream_nodes
       /\ DecisionOf(tick, m).tasks
            = <<UpdateNodeStateTask(m, "COMPLETE", "", "")>>
       /\ DecisionOf(tick, m).registered = 0
       /\ get_executions(executions, pipeline[m]) = {}
       /\ DecisionOf(tick, n).tasks
            = LaunchTasks(n, DecisionOf(tick, n).registered)
       /\ ExecNodeTask(n, DecisionOf(tick, n).registered, TRUE)
            \in TaskSet(tick.result)


\* The nodes that are STOPPING or STOPPED and not in the successful-nodes
\* cache.
StoppedNodes ==
  {id \in NodeIdsOf(pipeline) :
     /\ nodeState[id] \in {"STOPPING", "STOPPED"}
     /\ ~_in_successful_nodes_cache(_successful_nodes_cache, id)}

\* The answers of the collaborators for a run with such a node.
StoppedNodeAnswers == IF StoppedNodes = {} THEN {} ELSE EnvChoices

\* C26: for a node that is not in the successful-nodes cache and whose
\* state, read under the pipeline state lock, is STOPPING or STOPPED,
\* generate() returns no task, registers no execution and does not ask the
\* task queue; a call that nothing interleaves with does not add the node to
\* successful_node_ids, its decision depends neither on the node's service
\* status nor on its executions, and no node downstream of it outside the
\* cache gets a task in that call.
C26_StoppedNodesIgnored ==
  [](/\ \A i \in 1..Len(tick.decisions) :
          tick.decisions[i].node_state \in {"STOPPING", "STOPPED"}
            => /\ tick.decisions[i].tasks = <<>>
               /\ tick.decisions[i].registered = 0
               /\ ~tick.decisions[i].tracked
     /\ CanBeCalled =>
      \A env \in StoppedNodeAnswers :
        \A g \in {generate(env)} :
          \A i \in 1..Len(g.decisions) :
            \A d \in {g.decisions[i]} :
              d.node_id \in StoppedNodes =>
                /\ d.tasks = <<>>
                /\ d.registered = 0
                /\ \A k \in 1..Len(g.result) : g.result[k].node_id # d.node_id
                /\ get_executions(g.executions, pipeline[d.node_id])
                     = get_executions(executions, pipeline[d.node_id])
                /\ d.node_id \notin g.successful_node_ids
                /\ _generate_tasks_for_node(
                     pipeline[d.node_id], d.successful_node_ids,
                     WithFailedExecution(executions, d.node_id),
                     _successful_nodes_cache,
                     [env EXCEPT !.service_status[d.node_id] = "FAILED"]).tasks
                     = <<>>
                /\ \A j \in 1..Len(g.decisions) :
                     (/\ d.node_id
                           \in pipeline[g.decisions[j].node_id].upstream_nodes
                      /\ ~_in_successful_nodes_cache(_successful_nodes_cache,
                                                     g.decisions[j].node_id))
                       => /\ g.decisions[j].tasks = <<>>
                          /\ g.decisions[j].registered = 0)

\* A call completed a node and met the node downstream of it stopping or
\* stopped: it returned nothing for that node and nothing for the node
\* downstream of that one.
C26_Witness ==
  /\ tick.called
  /\ phase = "running"
  /\ \E m, n \in {tick.decisions[i].node_id :
                    i \in 1..Len(tick.decisions)} :
       /\ m \in StoppedNodes
       /\ pipeline[m].upstream_nodes # {}
       /\ pipeline[m].upstream_nodes
            \subseteq DecisionOf(tick, m).successful_node_ids
       /\ DecisionOf(tick, m).tasks = <<>>
       /\ m \in pipeline[n].upstream_nodes
       /\ DecisionOf(tick, n).tasks = <<>>
       /\ nodeState[n] = "STARTING"
       /\ \A k \in 1..Len(tick.result) : tick.result[k].node_id \notin {m, n}


\* The nodes in the order in which generate() walks them: layer by layer.
RECURSIVE WalkOrder(_, _)
WalkOrder(layers, k) ==
  IF k > Len(layers) THEN <<>> ELSE layers[k] \o WalkOrder(layers, k + 1)

\* The decisions whose tasks include a FinalizePipelineTask.
FinalizingDecisions(decisions) ==
  {i \in 1..Len(decisions) :
     \E k \in 1..Len(decisions[i].tasks) :
       is_finalize_pipeline_task(decisions[i].tasks[k])}

\* The nodes that come after decision i in the walk.
LaterInWalk(i) ==
  {WalkOrder(_topsorted_layers(pipeline), 1)[k] :
     k \in (i + 1)..Len(pipeline)}

\* C27: when the decision of a node yields a FinalizePipelineTask, the walk
\* of that generate() call ends there. The nodes decided are the nodes of
\* the walk up to that node; for the nodes later in the walk the returned
\* list holds no task and the call registers no execution; and the list
\* holds exactly one FinalizePipelineTask, that of the decision, as its last
\* task.
C27_StopOnFirstFinalize ==
  [][\A i \in FinalizingDecisions(tick'.decisions) :
       /\ i = Len(tick'.decisions)
       /\ \A k \in 1..i :
            tick'.decisions[k].node_id
              = WalkOrder(_topsorted_layers(pipeline), 1)[k]
       /\ \A node_id \in LaterInWalk(i) :
            /\ \A k \in 1..Len(tick'.result) :
                 tick'.result[k].node_id # node_id
            /\ get_executions(executions', pipeline[node_id])
                 = get_executions(executions, pipeline[node_id])
       /\ Len(TasksOfType(tick'.result, "FinalizePipelineTask")) = 1
       /\ tick'.result[Len(tick'.result)]
            = tick'.decisions[i].tasks[Len(tick'.decisions[i].tasks)]
       /\ is_finalize_pipeline_task(tick'.result[Len(tick'.result)])]_vars

\* A call aborted at the first node of a layer of two: the second node of
\* the layer and the node of the next layer were not decided, the list
\* ends with the FinalizePipelineTask and nothing was registered.
C27_Witness ==
  /\ tick.called
  /\ Len(pipeline) = 3
  /\ Len(_topsorted_layers(pipeline)[1]) = 2
  /\ FinalizingDecisions(tick.decisions) = {1}
  /\ Len(tick.decisions) = 1
  /\ is_finalize_pipeline_task(tick.result[Len(tick.result)])
  /\ Len(TasksOfType(tick.result, "FinalizePipelineTask")) = 1
  /\ executions = <<>>
  /\ \A k \in 1..Len(tick.result) : tick.result[k].node_id \notin {2, 3}


\* The decisions of the call recorded in t that resolved the inputs of a
\* node with caching disabled and registered an execution for it.
ResolvedWithCachingDisabled(t) ==
  {i \in 1..Len(t.decisions) :
     /\ t.decisions[i].registered # 0
     /\ ~pipeline[t.decisions[i].node_id].enable_cache}

\* The call recorded in t completed no node with caching disabled from
\* cached outputs.
NotCompletedFromCache(t) ==
  \A i \in ResolvedWithCachingDisabled(t) :
    /\ executions[t.decisions[i].registered].last_known_state # "CACHED"
    /\ t.decisions[i].tasks
         # <<UpdateNodeStateTask(t.decisions[i].node_id, "COMPLETE", "", "")>>

\* C28 as claimed: for a node with caching disabled the contexts of the
\* ExecNodeTask that generate() returns are the resolved contexts, without
\* the cache context, and the node is never completed from cached outputs.
C28_CacheContextOnlyWithCaching ==
  tick.called =>
    /\ NotCompletedFromCache(tick)
    /\ \A i \in ResolvedWithCachingDisabled(tick) :
         \A k \in 1..Len(tick.decisions[i].tasks) :
           is_exec_node_task(tick.decisions[i].tasks[k])
             => ~tick.decisions[i].tasks[k].cache_context


\* The decisions among these that registered an execution.
Registering(decisions) ==
  {i \in 1..Len(decisions) : decisions[i].registered # 0}

\* Decision d came out of fresh resolution with resolvable inputs: the call
\* read the node's executions, found none active and the latest one absent,
\* or failed or cancelled with the node state it read STARTING, and the
\* node was neither skipped nor failed for missing input artifacts.
ResolvedInputs(d) ==
  /\ ReadExecutions(d)
  /\ d.active = 0
  /\ \/ d.latest = 0
     \/ /\ ~is_execution_successful(executions[d.latest])
        /\ d.node_state = "STARTING"
  /\ d.tasks # <<UpdateNodeStateTask(d.node_id, "SKIPPED", "", "")>>
  /\ d.tasks # FailedTasks(d.node_id, "failure to resolve inputs",
                           "failure to resolve inputs")

\* The step is one of a generate() call: the call begins or goes on.
GenerateStep == tick' # tick /\ tick'.pc # "idle"

\* The step is the caller's dispatch of the list generate() returned.
DispatchStep == tick.pc = "returned" /\ tick'.pc = "idle" /\ tick'.called

\* The decisions the step of generate() recorded.
DecidedInStep ==
  SubSeq(tick'.decisions,
         (IF tick.pc = "idle" THEN 0 ELSE Len(tick.decisions)) + 1,
         Len(tick'.decisions))

\* The step of generate() registered one execution for each node whose
\* inputs it resolved and for no other node, and left the executions that
\* were in the store as they were; it changed no node state.
RegistersPerResolvedNode(decisions) ==
  /\ Len(executions')
       = Len(executions) + Cardinality(Registering(decisions))
  /\ \A e \in 1..Len(executions) : executions'[e] = executions[e]
  /\ \A i \in 1..Len(decisions) :
       /\ decisions[i].registered # 0 <=> ResolvedInputs(decisions[i])
       /\ decisions[i].registered # 0
            => /\ decisions[i].registered
                    \in (Len(executions) + 1)..Len(executions')
               /\ executions'[decisions[i].registered].node_id
                    = decisions[i].node_id
  /\ \A i, j \in Registering(decisions) :
       decisions[i].registered = decisions[j].registered => i = j
  /\ nodeState' = nodeState

\* The caller changed the state of the nodes with an UpdateNodeStateTask in
\* the returned list and of no other, and left the metadata store alone.
DispatchAppliesUpdates ==
  /\ executions' = executions
  /\ \A node_id \in NodeIdsOf(pipeline) :
       TasksFor(tick.result, "UpdateNodeStateTask", node_id) = <<>>
         => nodeState'[node_id] = nodeState[node_id]

\* The decisions among these that used cached outputs: they registered an
\* execution and returned COMPLETE alone.
CacheHitsAmong(decisions) ==
  {i \in Registering(decisions) :
     decisions[i].tasks
       = <<UpdateNodeStateTask(decisions[i].node_id, "COMPLETE", "", "")>>}

\* C29 as claimed: the only write of a generate() call to the metadata
\* store is one register_execution per node that reaches fresh resolution
\* with resolvable inputs: the executions it adds are the registered ones,
\* as register_execution leaves them, and nothing else changes; generate()
\* changes no node state, the caller does.
C29_OnlyRegisterExecution ==
  [][/\ GenerateStep =>
          /\ RegistersPerResolvedNode(DecidedInStep)
          /\ \A i \in Registering(DecidedInStep) :
               executions'[DecidedInStep[i].registered].last_known_state
                 = "RUNNING"
     /\ DispatchStep => DispatchAppliesUpdates]_vars

\* C29: a generate() call writes to the metadata store only for nodes that
\* reach fresh resolution with resolvable inputs: one register_execution
\* for each, and for a node completed from cached outputs the publish of
\* that same execution as CACHED. Nodes decided otherwise leave the store
\* unchanged, and generate() changes no node state, the caller does.
C29_WritesOnlyForResolvedNodes ==
  [][/\ GenerateStep =>
          /\ RegistersPerResolvedNode(DecidedInStep)
          /\ \A i \in Registering(DecidedInStep) :
               executions'[DecidedInStep[i].registered].last_known_state
                 = IF i \in CacheHitsAmong(DecidedInStep)
                   THEN "CACHED" ELSE "RUNNING"
     /\ DispatchStep => DispatchAppliesUpdates]_vars

\* A call found one node's execution successful, completed the next node
\* from cached outputs and launched the third: the store holds the old
\* execution as it was, a CACHED one and a RUNNING one.
C29_Witness ==
  /\ tick.called
  /\ Len(executions) = 3
  /\ Cardinality(Registering(tick.decisions)) = 2
  /\ \E i, j \in Registering(tick.decisions) :
       /\ executions[tick.decisions[i].registered].last_known_state = "CACHED"
       /\ executions[tick.decisions[j].registered].last_known_state
            = "RUNNING"
  /\ \E k \in 1..Len(tick.decisions) :
       /\ tick.decisions[k].registered = 0
       /\ tick.decisions[k].tasks
            = <<UpdateNodeStateTask(tick.decisions[k].node_id, "COMPLETE",
                                    "", "")>>
       /\ executions[1].node_id = tick.decisions[k].node_id
       /\ executions[1].last_known_state = "COMPLETE"


\* The node is done when generate() returns g: no execution of it is active,
\* and its latest execution is successful, or it was skipped (in this call
\* or an earlier one), or it is a pure service node found with status
\* SUCCESS (in this call or an earlier one).
NodeDoneIn(g, id) ==
  /\ ActiveExecutionOf(g.executions, id) = 0
  /\ \/ \E latest \in {get_latest_execution(
                         get_executions(g.executions, pipeline[id]))} :
          latest # 0 /\ is_execution_successful(g.executions[latest])
     \/ nodeState[id] = "SKIPPED"
     \/ svcKind[id] = "pure" /\ nodeState[id] = "COMPLETE"
     \/ \E i \in DOMAIN g.decisions :
          /\ g.decisions[i].node_id = id
          /\ g.decisions[i].tasks \in
               {<<UpdateNodeStateTask(id, "SKIPPED", "", "")>>,
                <<UpdateNodeStateTask(id, "COMPLETE", "", "")>>}

\* The successful-nodes cache as the next generate() call can find it: as
\* the last call left it, or with one entry evicted since.
CachesAfterEviction ==
  {_successful_nodes_cache}
    \cup {Evicted(_successful_nodes_cache, node_id) :
            node_id \in _successful_nodes_cache}

\* C31 as claimed: in every state in which generate() can be called,
\* whatever entry the successful-nodes cache lost since the last call, a
\* call that returns FinalizePipelineTask(OK) leaves every node of the
\* pipeline done: none with an active execution, each with a successful
\* latest execution, skipped, or a pure service node found successful.
C31_FinalizeOkMeansWholeDagDone ==
  CanBeCalled =>
    \A cached \in CachesAfterEviction :
      \A env \in EnvChoices :
        \A g \in {GenerateWith(cached, env)} :
          FinalizeCode(g.result) = "OK" =>
            \A id \in NodeIdsOf(pipeline) : NodeDoneIn(g, id)


\* The executions the last generate() call registered.
RegisteredInTick ==
  {tick.decisions[i].registered : i \in DOMAIN tick.decisions} \ {0}

\* C32 as claimed: every execution a generate() call registered is, when
\* the call returns, carried by an ExecNodeTask of the returned list or
\* published as CACHED; the call leaves no newly registered active
\* execution without a returned task.
C32_NoOrphanedRegisteredExecution ==
  tick.called =>
    \A execution_id \in RegisteredInTick :
      \/ \E t \in TaskSet(tick.result) :
           is_exec_node_task(t) /\ t.execution_id = execution_id
      \/ executions[execution_id].last_known_state = "CACHED"


(***************************************************************************)
(* A run whose collaborators do not fail: inputs resolve, no service job   *)
(* fails, every executor succeeds, no node is stopped                      *)
(***************************************************************************)

\* The steps of generate() while the service job asked about is still
\* running and the inputs asked about resolve.
GenerateWhileServicesRun ==
  \/ GenerateCalled
  \/ tick.pc = "state" /\ NodeStateRead("RUNNING")
  \/ tick.pc = "queue" /\ TaskQueueRead("RUNNING")
  \/ /\ tick.pc = "store"
     /\ \E resolved \in {"None", "Resolved"} :
          \E cached_outputs \in CachedOutputsAnswers :
            NodeExecutionsRead("RUNNING", resolved, cached_outputs)

\* The steps of generate() in which the service job of the node in turn
\* reports SUCCESS.
GenerateServiceSucceeded ==
  \/ /\ tick.pc = "state"
     /\ svcKind[NodeInTurn.id] = "pure"
     /\ NodeStateRead("SUCCESS")
  \/ /\ tick.pc = "queue"
     /\ svcKind[NodeInTurn.id] = "mixed"
     /\ TaskQueueRead("SUCCESS")
  \/ /\ tick.pc = "store"
     /\ svcKind[NodeInTurn.id] = "mixed"
     /\ \E resolved \in {"None", "Resolved"} :
          \E cached_outputs \in CachedOutputsAnswers :
            NodeExecutionsRead("SUCCESS", resolved, cached_outputs)

\* The executor of a queued task ends successfully.
ExecutionSucceeds ==
  \E i \in 1..Len(queue) : ExecutorFinishes(i, "COMPLETE", "")

NextProgress ==
  \/ GenerateWhileServicesRun
  \/ GenerateServiceSucceeded
  \/ Dispatch
  \/ ExecutionSucceeds
  \/ OrchestratorRestart

\* The orchestrator keeps calling generate() and dispatching what it
\* returns, and every executor ends; when a service job reports SUCCESS is
\* up to the job.
SpecProgress ==
  /\ Init
  /\ [][NextProgress]_vars
  /\ WF_vars(GenerateWhileServicesRun)
  /\ WF_vars(Dispatch)
  /\ WF_vars(ExecutionSucceeds)

\* The last generate() call returned FinalizePipelineTask(OK).
ReturnedFinalizeOk == tick.called /\ FinalizeCode(tick.result) = "OK"

\* A pure service node was last found with its job RUNNING.
PureServiceStillRunning ==
  \E id \in NodeIdsOf(pipeline) :
    svcKind[id] = "pure" /\ nodeState[id] = "RUNNING"

\* C33 as claimed: when ticks are weakly fair, every executor succeeds,
\* inputs resolve, no service job fails and no node is stopped, some
\* generate() call returns FinalizePipelineTask(OK).
C33_ProgressToFinalization == <>ReturnedFinalizeOk

\* No generate() call has returned a task: whenever a call has returned,
\* dispatched or not yet, its list is empty.
ReturnedNothing ==
  (tick.called \/ tick.pc = "returned") => tick.result = <<>>

\* C33, amended: under the same conditions some generate() call returns
\* FinalizePipelineTask(OK), unless from some point on the job of a pure
\* service node is reported RUNNING for ever; and the ticks do not return
\* empty lists for ever.
C33_ProgressUnlessServiceRunsForever ==
  /\ <>ReturnedFinalizeOk \/ <>[]PureServiceStillRunning
  /\ ~<>[]ReturnedNothing

\* A run with a pure service node and an executed node was finalized OK.
C33_Witness ==
  /\ ReturnedFinalizeOk
  /\ \E id \in NodeIdsOf(pipeline) : svcKind[id] = "pure"
  /\ \E i \in DOMAIN executions : executions[i].last_known_state = "COMPLETE"


(***************************************************************************)
(* mark_pipeline called again on a pipeline that is already marked         *)
(***************************************************************************)

\* mark_pipeline on the IR a previous call marked in place.
mark_pipeline_again(from_nodes, to_nodes, chief_settings) ==
  /\ phase = "marked"
  /\ _ensure_topologically_sorted(pipeline)
  /\ LET r == MarkResult(pipeline, from_nodes, to_nodes, chief_settings)
     IN /\ pipeline' = r.pipeline
        /\ markLog' = [called |-> TRUE,
                       from_node_ids |-> r.from_node_ids,
                       to_node_ids |-> r.to_node_ids,
                       node_map |-> r.node_map,
                       excluded_direct_dependencies |->
                         r.excluded_direct_dependencies]
  /\ UNCHANGED <<phase, genVars>>

MarkAgain ==
  \E from_nodes \in SUBSET NodeIdsOf(pipeline) :
    \E to_nodes \in SUBSET NodeIdsOf(pipeline) :
      \E chief_settings \in ChiefSettingsValues :
        mark_pipeline_again(from_nodes, to_nodes, chief_settings)

\* The pipelines below the largest size are marked again and again.
InitRemark == InitMark /\ Len(pipeline) < MaxNodes

NextRemark == MarkAny \/ MarkAgain

SpecRemark == InitRemark /\ [][NextRemark]_vars

\* The pipeline as compiled: no node carries a partial-run marker.
Unmarked(p) ==
  [i \in 1..Len(p) |-> [p[i] EXCEPT !.execution_options = NoExecutionOptions]]

\* C34 as claimed: after any sequence of mark_pipeline calls on the same
\* IR, the marks are those the last call alone leaves on an unmarked copy
\* (for some chief settings), and at most one node carries chief_settings.
C34_RemarkingIsHistoryIndependent ==
  phase = "marked" =>
    /\ \E chief_settings \in ChiefSettingsValues :
         pipeline = MarkResult(Unmarked(pipeline), markLog.from_node_ids,
                               markLog.to_node_ids, chief_settings).pipeline
    /\ Cardinality(ChiefNodes(pipeline)) <= 1


(***************************************************************************)
(* partial_run_utils.py: the artifact recycler on the metadata store       *)
(*                                                                         *)
(* A store holds contexts [type, name, create_time], executions            *)
(* [contexts, last_known_state, outputs] whose id is their index, and      *)
(* parent-context edges <<parent, child>>. A call that can raise returns   *)
(* [raised |-> "" or the exception, store |-> the store it leaves].        *)
(***************************************************************************)

PipelineName == "p"

EmptyStore ==
  [contexts |-> {}, executions |-> <<>>, parent_contexts |-> {},
   clock |-> 0]

NoContext == [type |-> "None", name |-> "", create_time |-> 0]

\* compiler_utils.node_context_name
node_context_name(pipeline_name, node_id) ==
  (pipeline_name \o ".") \o ToString(node_id)

\* store.get_context_by_type_and_name: the context, NoContext for None.
get_context_by_type_and_name(store, type_name, context_name) ==
  LET found == {ctx \in store.contexts :
                  ctx.type = type_name /\ ctx.name = context_name}
  IN IF found = {} THEN NoContext ELSE CHOOSE ctx \in found : TRUE

\* context_lib.register_context_if_not_exists
register_context_if_not_exists(store, context_type_name, context_name) ==
  IF get_context_by_type_and_name(store, context_type_name, context_name)
       # NoContext
  THEN store
  ELSE [store EXCEPT
          !.contexts = @ \cup {[type |-> context_type_name,
                                name |-> context_name,
                                create_time |-> store.clock + 1]},
          !.clock = @ + 1]

\* execution_lib.get_executions_associated_with_all_contexts: the ids of the
\* executions associated with every one of the contexts, oldest first.
get_executions_associated_with_all_contexts(store, contexts) ==
  IdList({i \in 1..Len(store.executions) :
            contexts \subseteq store.executions[i].contexts})

\* execution_lib.sort_executions_newest_to_oldest
RECURSIVE sort_executions_newest_to_oldest(_)
sort_executions_newest_to_oldest(ids) ==
  IF ids = <<>> THEN <<>>
  ELSE Append(sort_executions_newest_to_oldest(Tail(ids)), Head(ids))

\* execution_publish_utils.register_execution of the recycler: a new
\* execution under the contexts, not yet published.
register_cache_execution(store, contexts) ==
  [store EXCEPT
     !.executions = Append(@, [contexts |-> contexts,
                               last_known_state |-> "RUNNING",
                               outputs |-> {}])]

\* execution_publish_utils.publish_cached_execution of the recycler: the
\* execution becomes CACHED under the contexts, with the output artifacts.
publish_cache_execution(store, contexts, execution_id, output_artifacts) ==
  [store EXCEPT
     !.executions[execution_id] =
        [contexts |-> @.contexts \cup contexts,
         last_known_state |-> "CACHED",
         outputs |-> @.outputs \cup output_artifacts]]

\* _ArtifactRecycler._get_pipeline_run_context; the dictionary of run
\* contexts read at construction holds the run contexts of the store.
_get_pipeline_run_context(store, run_id, register_if_not_found) ==
  IF get_context_by_type_and_name(store, "pipeline_run", run_id) # NoContext
  THEN [raised |-> "", store |-> store]
  ELSE IF register_if_not_found
  THEN [raised |-> "",
        store |-> register_context_if_not_exists(store, "pipeline_run",
                                                 run_id)]
  ELSE [raised |-> "LookupError", store |-> store]

\* A latest run that may be the new run itself.
get_latest_pipeline_run_id_including_new(store, new_run_id) ==
  LET previous == {ctx \in store.contexts : ctx.type = "pipeline_run"}
  IN IF previous = {} THEN ""
     ELSE (CHOOSE ctx \in previous :
             \A other \in previous :
               other.create_time <= ctx.create_time).name

\* _ArtifactRecycler.get_latest_pipeline_run_id: "" stands for the
\* LookupError of a store without a previous run.
get_latest_pipeline_run_id(store, new_run_id) ==
  LET previous == {ctx \in store.contexts :
                     ctx.type = "pipeline_run" /\ ctx.name # new_run_id}
  IN IF previous = {} THEN ""
     ELSE (CHOOSE ctx \in previous :
             \A other \in previous :
               other.create_time <= ctx.create_time).name

\* _ArtifactRecycler._get_successful_executions: the ids, newest first; the
\* empty list stands for one of its LookupErrors.
_get_successful_executions(store, pipeline_name, node_id, run_id) ==
  LET node_context ==
        get_context_by_type_and_name(
          store, "node", node_context_name(pipeline_name, node_id))
      base_run_context ==
        get_context_by_type_and_name(store, "pipeline_run", run_id)
      pipeline_context ==
        get_context_by_type_and_name(store, "pipeline", pipeline_name)
  IN IF node_context = NoContext \/ base_run_context = NoContext
     THEN <<>>
     ELSE sort_executions_newest_to_oldest(
            SelectSeq(
              get_executions_associated_with_all_contexts(
                store, {node_context, base_run_context, pipeline_context}),
              LAMBDA i : is_execution_successful(store.executions[i])))

\* _ArtifactRecycler._get_cached_execution_contexts, on the store in which
\* the new run context is registered.
_get_cached_execution_contexts(store, new_run_id, existing_execution) ==
  {IF ctx.type = "pipeline_run"
   THEN get_context_by_type_and_name(store, "pipeline_run", new_run_id)
   ELSE ctx : ctx \in store.executions[existing_execution].contexts}

\* _cache_and_publish once the contexts of the cached execution and the
\* previous attempts under them are known.
PublishUnder(store, existing_execution, contexts, prev_cache_executions) ==
  IF prev_cache_executions = <<>>
  THEN publish_cache_execution(
         register_cache_execution(store, contexts), contexts,
         Len(store.executions) + 1,
         store.executions[existing_execution].outputs)
  ELSE IF store.executions[prev_cache_executions[Len(prev_cache_executions)]]
            .last_known_state = "CACHED"
  THEN store
  ELSE publish_cache_execution(
         store, contexts,
         prev_cache_executions[Len(prev_cache_executions)],
         store.executions[existing_execution].outputs)

\* _cache_and_publish with the contexts known.
CacheUnder(store, existing_execution, contexts) ==
  PublishUnder(store, existing_execution, contexts,
               get_executions_associated_with_all_contexts(store, contexts))

\* A variant that registers a new execution whatever attempts exist.
_cache_and_publish_always_registering(store, new_run_id, existing_execution) ==
  LET registered ==
        IF \E ctx \in store.executions[existing_execution].contexts :
             ctx.type = "pipeline_run"
        THEN _get_pipeline_run_context(store, new_run_id, TRUE).store
        ELSE store
  IN PublishUnder(
       registered, existing_execution,
       _get_cached_execution_contexts(registered, new_run_id,
                                      existing_execution),
       <<>>)

\* _ArtifactRecycler._cache_and_publish: the store it leaves.
_cache_and_publish(store, new_run_id, existing_execution) ==
  LET registered ==
        IF \E ctx \in store.executions[existing_execution].contexts :
             ctx.type = "pipeline_run"
        THEN _get_pipeline_run_context(store, new_run_id, TRUE).store
        ELSE store
  IN CacheUnder(
       registered, existing_execution,
       _get_cached_execution_contexts(registered, new_run_id,
                                      existing_execution))

\* The for loop of reuse_node_outputs.
RECURSIVE CacheAndPublishAll(_, _, _)
CacheAndPublishAll(store, new_run_id, previous_executions) ==
  IF previous_executions = <<>> THEN store
  ELSE CacheAndPublishAll(
         _cache_and_publish(store, new_run_id, Head(previous_executions)),
         new_run_id, Tail(previous_executions))

\* _ArtifactRecycler.reuse_node_outputs
reuse_node_outputs(store, pipeline_name, new_run_id, node_id, base_run_id) ==
  IF _get_successful_executions(store, pipeline_name, node_id, base_run_id)
       = <<>>
  THEN [raised |-> "LookupError", store |-> store]
  ELSE [raised |-> "",
        store |-> CacheAndPublishAll(
                    store, new_run_id,
                    _get_successful_executions(store, pipeline_name, node_id,
                                               base_run_id))]

\* _ArtifactRecycler.put_parent_context
put_parent_context(store, new_run_id, base_run_id) ==
  IF _get_pipeline_run_context(store, base_run_id, FALSE).raised # ""
  THEN [raised |-> "LookupError", store |-> store]
  ELSE [raised |-> "",
        store |->
          [_get_pipeline_run_context(store, new_run_id, TRUE).store
             EXCEPT !.parent_contexts = @ \cup {<<base_run_id, new_run_id>>}]]

\* Lines 393-412, the module-level reuse_node_outputs(metadata_handler,
\* pipeline_name, node_id, base_run_id, new_run_id): a recycler is built,
\* which looks up the pipeline context, and reuses the outputs of the one
\* node; no parent context is put.
module_reuse_node_outputs(store, pipeline_name, node_id, base_run_id, new_run_id) ==
  IF get_context_by_type_and_name(store, "pipeline", pipeline_name)
       = NoContext
  THEN [raised |-> "LookupError", store |-> store]
  ELSE reuse_node_outputs(store, pipeline_name, new_run_id, node_id,
                          base_run_id)

\* _get_validated_new_run_id; pipeline_run_id is the run id in the IR's
\* runtime_spec, "" when it has none.
_get_validated_new_run_id(pipeline_run_id, new_run_id) ==
  IF pipeline_run_id = "" /\ new_run_id = ""
  THEN [raised |-> "ValueError", run_id |-> ""]
  ELSE IF new_run_id # "" /\ pipeline_run_id # ""
          /\ new_run_id # pipeline_run_id
  THEN [raised |-> "ValueError", run_id |-> ""]
  ELSE [raised |-> "",
        run_id |-> IF pipeline_run_id # "" THEN pipeline_run_id
                   ELSE new_run_id]

\* A variant that reuses every node not marked run.
_compute_nodes_to_reuse_all_but_run(marked_pipeline) ==
  [raised |->
     _traverse(_make_ordered_node_map(marked_pipeline), "DOWNSTREAM",
               {id \in NodeIdsOf(marked_pipeline) :
                  marked_pipeline[id].execution_options
                    .partial_run_option = "run"})
       \cap _traverse(_make_ordered_node_map(marked_pipeline), "UPSTREAM",
                      {id \in NodeIdsOf(marked_pipeline) :
                         /\ marked_pipeline[id].execution_options
                              .partial_run_option = "skip"
                         /\ marked_pipeline[id].execution_options
                              .child_in_partial_run}) # {},
   nodes_to_reuse |->
     {id \in NodeIdsOf(marked_pipeline) :
        marked_pipeline[id].execution_options.partial_run_option # "run"}]

\* [raised |-> the ValueError of line 495, nodes_to_reuse |-> the result]
_compute_nodes_to_reuse(marked_pipeline) ==
  LET node_map == _make_ordered_node_map(marked_pipeline)
      nodes_to_run ==
        {id \in DOMAIN node_map :
           node_map[id].execution_options.partial_run_option = "run"}
      skipped_nodes_w_included_children ==
        {id \in DOMAIN node_map :
           /\ node_map[id].execution_options.partial_run_option = "skip"
           /\ node_map[id].execution_options.child_in_partial_run}
      exclusion_set == _traverse(node_map, "DOWNSTREAM", nodes_to_run)
      inclusion_set ==
        _traverse(node_map, "UPSTREAM", skipped_nodes_w_included_children)
  IN [raised |-> exclusion_set \cap inclusion_set # {},
      nodes_to_reuse |-> DOMAIN node_map \ exclusion_set]

\* Lines 546-547: the nodes to reuse one after the other, in the iteration
\* order of the set; the first exception ends the loop.
RECURSIVE ReuseNodes(_, _, _, _, _)
ReuseNodes(store, pipeline_name, new_run_id, base_run_id, order) ==
  IF order = <<>> THEN [raised |-> "", store |-> store]
  ELSE IF reuse_node_outputs(store, pipeline_name, new_run_id, Head(order),
                             base_run_id).raised # ""
  THEN reuse_node_outputs(store, pipeline_name, new_run_id, Head(order),
                          base_run_id)
  ELSE ReuseNodes(
         reuse_node_outputs(store, pipeline_name, new_run_id, Head(order),
                            base_run_id).store,
         pipeline_name, new_run_id, base_run_id, Tail(order))

\* Lines 546-549 with the run ids known.
RecycleFrom(store, order, new_run_id, base_run_id) ==
  IF ReuseNodes(store, PipelineName, new_run_id, base_run_id,
                order).raised # ""
  THEN ReuseNodes(store, PipelineName, new_run_id, base_run_id, order)
  ELSE put_parent_context(
         ReuseNodes(store, PipelineName, new_run_id, base_run_id,
                    order).store,
         new_run_id, base_run_id)

\* The order in which a call visits the nodes to reuse, given an order of
\* all nodes.
ReuseOrder(marked_pipeline, order) ==
  SelectSeq(order,
            LAMBDA id :
              id \in _compute_nodes_to_reuse(marked_pipeline).nodes_to_reuse)

\* The base run a call uses: the one given, else the latest previous one.
BaseRunOf(store, base_run_id, new_run_id) ==
  IF base_run_id # "" THEN base_run_id
  ELSE get_latest_pipeline_run_id(store, new_run_id)

\* reuse_pipeline_run_artifacts(metadata_handler, marked_pipeline,
\* base_run_id, new_run_id); "" stands for an argument that is None.
reuse_pipeline_run_artifacts(store, marked_pipeline, pipeline_run_id, base_run_id, new_run_id, order) ==
  IF _get_validated_new_run_id(pipeline_run_id, new_run_id).raised # ""
  THEN [raised |-> "ValueError", store |-> store]
  ELSE IF _compute_nodes_to_reuse(marked_pipeline).raised
  THEN [raised |-> "ValueError", store |-> store]
  ELSE IF get_context_by_type_and_name(store, "pipeline", PipelineName)
            = NoContext
  THEN [raised |-> "LookupError", store |-> store]
  ELSE IF BaseRunOf(
            store, base_run_id,
            _get_validated_new_run_id(pipeline_run_id, new_run_id).run_id)
            = ""
  THEN [raised |-> "LookupError", store |-> store]
  ELSE RecycleFrom(
         store, ReuseOrder(marked_pipeline, order),
         _get_validated_new_run_id(pipeline_run_id, new_run_id).run_id,
         BaseRunOf(
           store, base_run_id,
           _get_validated_new_run_id(pipeline_run_id, new_run_id).run_id))

\* chief_settings.base_pipeline_run_strategy.base_run_id
ChiefBaseRunId == "run0"

\* snapshot(pipeline_node, mlmd_connection_config, pipeline): a no-op for a
\* node without chief_settings, the reuse for the chief.
snapshot(store, pipeline_node, marked_pipeline, pipeline_run_id, order) ==
  IF pipeline_node.execution_options.chief_settings = "unset"
  THEN [raised |-> "", store |-> store]
  ELSE reuse_pipeline_run_artifacts(
         store, marked_pipeline, pipeline_run_id,
         IF pipeline_node.execution_options.chief_settings
              = "base_pipeline_run_strategy"
         THEN ChiefBaseRunId ELSE "",
         "", order)


(***************************************************************************)
(* Metadata stores left by earlier runs                                    *)
(***************************************************************************)

\* The store after the pipeline and its first run registered their contexts.
StoreWithBaseRun ==
  register_context_if_not_exists(
    register_context_if_not_exists(EmptyStore, "pipeline", PipelineName),
    "pipeline_run", "run0")

\* The contexts of an execution of the node in the run.
ExecutionContexts(store, node_id, run_id) ==
  {get_context_by_type_and_name(store, "pipeline", PipelineName),
   get_context_by_type_and_name(store, "pipeline_run", run_id),
   get_context_by_type_and_name(
     store, "node", node_context_name(PipelineName, node_id))}

\* An execution of the node in the run ended in the state; a successful one
\* has one output artifact of its own.
StoreWithContexts(store, node_id, run_id, state) ==
  [store EXCEPT
     !.executions =
        Append(@, [contexts |-> ExecutionContexts(store, node_id, run_id),
                   last_known_state |-> state,
                   outputs |-> IF state = "COMPLETE"
                               THEN {Len(store.executions) + 1} ELSE {}])]

AddExecution(store, node_id, run_id, state) ==
  StoreWithContexts(
    register_context_if_not_exists(
      register_context_if_not_exists(
        store, "node", node_context_name(PipelineName, node_id)),
      "pipeline_run", run_id),
    node_id, run_id, state)

\* What a node left in the base run: nothing, a failed execution, one
\* successful execution, or two of them.
NodeHistories == {"none", "failed", "one", "two"}

AddHistory(store, node_id, history) ==
  IF history = "none" THEN store
  ELSE IF history = "failed"
  THEN AddExecution(store, node_id, "run0", "FAILED")
  ELSE IF history = "one"
  THEN AddExecution(store, node_id, "run0", "COMPLETE")
  ELSE AddExecution(AddExecution(store, node_id, "run0", "COMPLETE"),
                    node_id, "run0", "COMPLETE")

RECURSIVE BaseRunStore(_, _, _)
BaseRunStore(store, histories, node_id) ==
  IF node_id > Len(histories) THEN store
  ELSE BaseRunStore(AddHistory(store, node_id, histories[node_id]),
                    histories, node_id + 1)

\* The new run already registered an execution for these nodes, which is
\* still running.
RECURSIVE WithPriorAttempts(_, _)
WithPriorAttempts(store, nodes) ==
  IF nodes = <<>> THEN store
  ELSE WithPriorAttempts(AddExecution(store, Head(nodes), "run1", "RUNNING"),
                         Tail(nodes))

\* The orders in which a set can be iterated.
Orders(S) ==
  {order \in [1..Cardinality(S) -> S] :
     \A i, j \in 1..Cardinality(S) : order[i] = order[j] => i = j}


(***************************************************************************)
(* partial_run_utils.py: snapshot at node runtime                          *)
(***************************************************************************)

\* A node marked run reaches its runtime once the nodes marked run among its
\* upstream nodes have finished; it calls snapshot, then executes.
StartNode(node_id) ==
  /\ phase = "partial_run"
  /\ node_id \in RunNodes(pipeline)
  /\ node_id \notin runtime.started
  /\ pipeline[node_id].upstream_nodes \cap RunNodes(pipeline)
       \subseteq runtime.finished
  /\ \E order \in Orders(NodeIdsOf(pipeline)) :
       \E r \in {snapshot(runtime.store, pipeline[node_id], pipeline,
                          runtime.pipeline_run_id, order)} :
         runtime' =
           [runtime EXCEPT
              !.store = r.store,
              !.started = IF r.raised = "" THEN @ \cup {node_id} ELSE @,
              !.reuse_complete =
                 \/ @
                 \/ /\ r.raised = ""
                    /\ node_id \in ChiefNodes(pipeline)]
  /\ UNCHANGED <<pipeline, phase, markLog, svcKind, nodeState, executions,
                 queue, _successful_nodes_cache, tick, budget>>

\* A started node finishes executing.
FinishNode(node_id) ==
  /\ phase = "partial_run"
  /\ node_id \in runtime.started \ runtime.finished
  /\ runtime' = [runtime EXCEPT !.finished = @ \cup {node_id}]
  /\ UNCHANGED <<pipeline, phase, markLog, svcKind, nodeState, executions,
                 queue, _successful_nodes_cache, tick, budget>>

NodeStarts == \E node_id \in NodeIdsOf(pipeline) : StartNode(node_id)
NodeFinishes == \E node_id \in NodeIdsOf(pipeline) : FinishNode(node_id)

\* The base run succeeded for every node, or for every node but the last.
BaseRunHistories(n) ==
  {[i \in 1..n |-> "one"],
   [i \in 1..n |-> IF i = n THEN "none" ELSE "one"]}

InitPartialRun ==
  /\ \E n \in 1..MaxNodes :
       \E up \in SortedDags(n) :
         \E from_nodes \in SUBSET (1..n) :
           \E to_nodes \in {from_nodes, 1..n} :
             LET r == MarkResult(
                        CompiledPipeline(n, up, up, [i \in 1..n |-> FALSE]),
                        from_nodes, to_nodes, _default_chief_settings)
             IN /\ pipeline = r.pipeline
                /\ markLog =
                     [called |-> TRUE,
                      from_node_ids |-> r.from_node_ids,
                      to_node_ids |-> r.to_node_ids,
                      node_map |-> r.node_map,
                      excluded_direct_dependencies |->
                        r.excluded_direct_dependencies]
  /\ phase = "partial_run"
  /\ svcKind = <<>> /\ nodeState = <<>> /\ executions = <<>>
  /\ queue = <<>> /\ _successful_nodes_cache = {} /\ tick = <<>>
  /\ budget = 0
  /\ \E histories \in BaseRunHistories(Len(pipeline)) :
       runtime = [NoRuntime EXCEPT
                    !.store = BaseRunStore(StoreWithBaseRun, histories, 1),
                    !.pipeline_run_id = "run1"]

NextPartialRun == NodeStarts \/ NodeFinishes

SpecPartialRun == InitPartialRun /\ [][NextPartialRun]_vars

\* C6 as claimed: whenever a node marked run other than the chief has
\* started executing, the chief's reuse_pipeline_run_artifacts has completed.
C6_ReuseCompleteBeforeOtherRunNodes ==
  \A node_id \in runtime.started \ ChiefNodes(pipeline) :
    runtime.reuse_complete


(***************************************************************************)
(* Calls of reuse_pipeline_run_artifacts on a store                        *)
(***************************************************************************)

\* The number of calls of reuse_pipeline_run_artifacts and of
\* reuse_node_outputs in a behaviour.
MaxReuseCalls == 2

\* (base_run_id, new_run_id) of a call; "" stands for None.
RunIdArguments ==
  {<<"", "">>, <<"run0", "">>, <<"runX", "">>, <<"", "run1">>,
   <<"", "run2">>}

\* One call of reuse_pipeline_run_artifacts; the call is logged with the
\* store before and after it.
ReuseCall(base_run_id, new_run_id, order) ==
  /\ phase = "recycling"
  /\ Len(runtime.calls) + Len(runtime.node_calls) < MaxReuseCalls
  /\ \E r \in {reuse_pipeline_run_artifacts(
                 runtime.store, pipeline, runtime.pipeline_run_id,
                 base_run_id, new_run_id, order)} :
       runtime' =
         [runtime EXCEPT
            !.store = r.store,
            !.calls =
               Append(@, [base_run_id |-> base_run_id,
                          new_run_id |-> new_run_id,
                          order |-> ReuseOrder(pipeline, order),
                          raised |-> r.raised,
                          before |-> runtime.store,
                          after |-> r.store])]
  /\ UNCHANGED <<pipeline, phase, markLog, svcKind, nodeState, executions,
                 queue, _successful_nodes_cache, tick, budget>>

\* A call with some arguments, iterating the set of nodes to reuse in some
\* order.
Recycle ==
  \E arguments \in RunIdArguments :
    \E order \in Orders(_compute_nodes_to_reuse(pipeline).nodes_to_reuse) :
      ReuseCall(arguments[1], arguments[2], order)

\* (base_run_id, new_run_id) of a call of reuse_node_outputs.
NodeRunIdArguments == {<<"run0", "run1">>, <<"runX", "run1">>}

\* One call of the module-level reuse_node_outputs for one node, made on
\* its own; the call is logged with the store before and after it.
ReuseNodeCall(node_id, base_run_id, new_run_id) ==
  /\ phase = "recycling"
  /\ Len(runtime.calls) + Len(runtime.node_calls) < MaxReuseCalls
  /\ \E r \in {module_reuse_node_outputs(
                 runtime.store, PipelineName, node_id, base_run_id,
                 new_run_id)} :
       runtime' =
         [runtime EXCEPT
            !.store = r.store,
            !.node_calls =
               Append(@, [node_id |-> node_id,
                          base_run_id |-> base_run_id,
                          new_run_id |-> new_run_id,
                          raised |-> r.raised,
                          before |-> runtime.store,
                          after |-> r.store])]
  /\ UNCHANGED <<pipeline, phase, markLog, svcKind, nodeState, executions,
                 queue, _successful_nodes_cache, tick, budget>>

\* A call of reuse_node_outputs for some node of the pipeline.
ReuseNode ==
  \E node_id \in NodeIdsOf(pipeline) :
    \E arguments \in NodeRunIdArguments :
      ReuseNodeCall(node_id, arguments[1], arguments[2])

\* mark_pipeline's result on a plain pipeline, as the pipeline and the log.
MarkedFor(n, up, from_nodes) ==
  MarkResult(CompiledPipeline(n, up, up, [i \in 1..n |-> FALSE]),
             from_nodes, from_nodes, _default_chief_settings)

\* A marked pipeline whose marks were edited afterwards: the node gets
\* child_in_partial_run.
Tampered(r, node_id) ==
  [r EXCEPT
     !.pipeline[node_id].execution_options.child_in_partial_run = TRUE]

\* A chain and a join with the last node to run, two independent nodes with
\* the second to run, and a chain with the middle node to run, as marked
\* and with the marks of its last node edited.
RecyclePipelines ==
  {MarkedFor(3, <<{}, {1}, {2}>>, {3}),
   MarkedFor(3, <<{}, {}, {1, 2}>>, {3}),
   MarkedFor(2, <<{}, {}>>, {2}),
   MarkedFor(3, <<{}, {1}, {2}>>, {2}),
   Tampered(MarkedFor(3, <<{}, {1}, {2}>>, {2}), 3)}

\* The store of a pipeline whose first run is the new run itself: the
\* pipeline and run1 registered their contexts, no run came before.
StoreOfFirstRun ==
  register_context_if_not_exists(
    register_context_if_not_exists(EmptyStore, "pipeline", PipelineName),
    "pipeline_run", "run1")

\* The stores a call can meet: an empty one, the one of a first run, or the
\* base run with a history for each node to reuse, with or without an
\* attempt of the new run on the first node.
RecycleStores(marked_pipeline) ==
  {EmptyStore, StoreOfFirstRun}
  \cup
  {WithPriorAttempts(BaseRunStore(StoreWithBaseRun, histories, 1), prior) :
     histories \in
       {h \in [1..Len(marked_pipeline) -> NodeHistories] :
          \A id \in 1..Len(marked_pipeline) :
            id \notin _compute_nodes_to_reuse(marked_pipeline).nodes_to_reuse
              => h[id] = "none"},
     prior \in {<<>>, <<1>>}}

InitRecycle ==
  /\ \E r \in RecyclePipelines :
       /\ pipeline = r.pipeline
       /\ markLog =
            [called |-> TRUE,
             from_node_ids |-> r.from_node_ids,
             to_node_ids |-> r.to_node_ids,
             node_map |-> r.node_map,
             excluded_direct_dependencies |->
               r.excluded_direct_dependencies]
  /\ phase = "recycling"
  /\ svcKind = <<>> /\ nodeState = <<>> /\ executions = <<>>
  /\ queue = <<>> /\ _successful_nodes_cache = {} /\ tick = <<>>
  /\ budget = 0
  /\ \E store \in RecycleStores(pipeline) :
       \E pipeline_run_id \in {"", "run1"} :
         runtime = [NoRuntime EXCEPT
                      !.store = store,
                      !.pipeline_run_id = pipeline_run_id]

NextRecycle == Recycle \/ ReuseNode

SpecRecycle == InitRecycle /\ [][NextRecycle]_vars


(***************************************************************************)
(* Properties of reuse_pipeline_run_artifacts                              *)
(***************************************************************************)

\* The run id a call associates the reused outputs with.
NewRunOf(call) ==
  _get_validated_new_run_id(runtime.pipeline_run_id, call.new_run_id).run_id

\* The executions of the node under the pipeline, node and run contexts.
ExecutionsUnder(store, node_id, run_id) ==
  {i \in DOMAIN store.executions :
     \E node_context, run_context, pipeline_context
          \in store.executions[i].contexts :
       /\ node_context.type = "node"
       /\ node_context.name = node_context_name(PipelineName, node_id)
       /\ run_context.type = "pipeline_run"
       /\ run_context.name = run_id
       /\ pipeline_context.type = "pipeline"
       /\ pipeline_context.name = PipelineName}

\* The call of reuse_pipeline_run_artifacts that led to this state: the
\* latest one, while no later call has written to the store. Every call is
\* that call in the state it leads to.
CallJustMade ==
  {i \in DOMAIN runtime.calls :
     i = Len(runtime.calls) /\ runtime.store = runtime.calls[i].after}

\* Two consecutive calls with the same arguments, the first of which
\* returned, with no other write to the store between them.
Repeated(i) ==
  /\ i + 1 \in DOMAIN runtime.calls
  /\ runtime.calls[i].raised = ""
  /\ runtime.calls[i + 1].before = runtime.calls[i].after
  /\ runtime.calls[i + 1].base_run_id = runtime.calls[i].base_run_id
  /\ runtime.calls[i + 1].new_run_id = runtime.calls[i].new_run_id

\* C12: a call of reuse_pipeline_run_artifacts that repeats the arguments of
\* a call that returned also returns and leaves the metadata store as it
\* found it: no execution registered, no execution changed, no context and
\* no parent-context edge added. And no call duplicates an execution: a node
\* that had executions under the new run's contexts keeps their number, a
\* node that had none gets at most one.
C12_RecyclerIdempotence ==
  /\ \A i \in DOMAIN runtime.calls :
       (i + 1 \in CallJustMade /\ Repeated(i)) =>
         /\ runtime.calls[i + 1].raised = ""
         /\ runtime.calls[i + 1].after = runtime.calls[i + 1].before
  /\ \A i \in CallJustMade :
       \A node_id \in NodeIdsOf(pipeline) :
         LET before == Cardinality(ExecutionsUnder(
                         runtime.calls[i].before, node_id,
                         NewRunOf(runtime.calls[i])))
             after == Cardinality(ExecutionsUnder(
                        runtime.calls[i].after, node_id,
                        NewRunOf(runtime.calls[i])))
         IN after = IF before = 0 /\ after # 0 THEN 1 ELSE before

\* A call that turned a running execution of the new run into the cached
\* one was repeated.
C12_Witness ==
  /\ Len(runtime.calls) = 2
  /\ Repeated(1)
  /\ runtime.calls[1].after # runtime.calls[1].before
  /\ \E i \in ExecutionsUnder(runtime.calls[1].before, 1,
                              NewRunOf(runtime.calls[1])) :
       /\ runtime.calls[1].before.executions[i].last_known_state = "RUNNING"
       /\ runtime.calls[1].after.executions[i].last_known_state = "CACHED"
  /\ <<runtime.calls[1].base_run_id, NewRunOf(runtime.calls[1])>>
       \in runtime.calls[2].after.parent_contexts

\* C13 as claimed: after a call that returned, every successful execution of
\* a node to reuse in the base run has a CACHED execution under the
\* pipeline, node and new-run contexts that carries its output artifacts.
C13_RecyclerCompleteness ==
  \A i \in DOMAIN runtime.calls :
    runtime.calls[i].raised = "" =>
      \A node_id \in _compute_nodes_to_reuse(pipeline).nodes_to_reuse :
        \A e \in ExecutionsUnder(
                   runtime.calls[i].before, node_id,
                   BaseRunOf(runtime.calls[i].before,
                             runtime.calls[i].base_run_id,
                             NewRunOf(runtime.calls[i]))) :
          is_execution_successful(runtime.calls[i].before.executions[e]) =>
            \E x \in ExecutionsUnder(runtime.calls[i].after, node_id,
                                     NewRunOf(runtime.calls[i])) :
              /\ runtime.calls[i].after.executions[x].last_known_state
                   = "CACHED"
              /\ runtime.calls[i].before.executions[e].outputs
                   \subseteq runtime.calls[i].after.executions[x].outputs

\* C14 as claimed: a call that raised left the metadata store unchanged.
C14_RaiseBeforeMutation ==
  \A i \in DOMAIN runtime.calls :
    runtime.calls[i].raised # "" =>
      runtime.calls[i].after = runtime.calls[i].before


\* The pipeline-run contexts of the store that are not the new run's.
PreviousRunContexts(store, new_run_id) ==
  {ctx \in store.contexts :
     ctx.type = "pipeline_run" /\ ctx.name # new_run_id}

\* The call was given no base_run_id and got as far as choosing one: its
\* run id is valid, the marks are consistent and the pipeline is known to
\* the store.
DefaultsBaseRun(call) ==
  /\ call.base_run_id = ""
  /\ _get_validated_new_run_id(runtime.pipeline_run_id,
                               call.new_run_id).raised = ""
  /\ ~_compute_nodes_to_reuse(pipeline).raised
  /\ get_context_by_type_and_name(call.before, "pipeline", PipelineName)
       # NoContext

\* C23: a call of reuse_pipeline_run_artifacts without base_run_id behaves
\* as the call with base_run_id set to the name of the pipeline-run context
\* of greatest creation time among those whose name is not the new run id,
\* and a call that returns records that run as the parent of the new run;
\* when the store holds no such context the call raises LookupError and
\* leaves the store as it found it. Stated of the call just made.
C23_DefaultBaseRun ==
  \A i \in CallJustMade :
    \A call \in {runtime.calls[i]} :
      DefaultsBaseRun(call) =>
        \A previous \in {PreviousRunContexts(call.before, NewRunOf(call))} :
          IF previous = {}
          THEN call.raised = "LookupError" /\ call.after = call.before
          ELSE \E latest \in previous :
                 /\ \A other \in previous :
                      other.create_time <= latest.create_time
                 /\ latest.name # NewRunOf(call)
                 /\ \A r \in {reuse_pipeline_run_artifacts(
                                call.before, pipeline,
                                runtime.pipeline_run_id, latest.name,
                                call.new_run_id, call.order)} :
                      call.raised = r.raised /\ call.after = r.store
                 /\ call.raised = ""
                      => <<latest.name, NewRunOf(call)>>
                           \in call.after.parent_contexts

\* Two calls without base_run_id. The first met the context of the new run,
\* registered after the base run's, and reused the base run; the second,
\* for a later run, met the contexts of both earlier runs and reused the
\* later of the two.
C23_Witness ==
  /\ Len(runtime.calls) = 2
  /\ DefaultsBaseRun(runtime.calls[1])
  /\ NewRunOf(runtime.calls[1]) = "run1"
  /\ get_context_by_type_and_name(runtime.calls[1].before, "pipeline_run",
                                  "run1").create_time
       > get_context_by_type_and_name(runtime.calls[1].before,
                                      "pipeline_run", "run0").create_time
  /\ runtime.calls[1].raised = ""
  /\ <<"run0", "run1">> \in runtime.calls[1].after.parent_contexts
  /\ DefaultsBaseRun(runtime.calls[2])
  /\ NewRunOf(runtime.calls[2]) = "run2"
  /\ {ctx.name : ctx \in PreviousRunContexts(runtime.calls[2].before, "run2")}
       = {"run0", "run1"}
  /\ runtime.calls[2].raised = ""
  /\ <<"run1", "run2">> \in runtime.calls[2].after.parent_contexts


\* The downstream closure of the nodes marked run, and the upstream closure
\* of the nodes marked skip with child_in_partial_run, start nodes included.
DownstreamOfRunNodes(p) == Descendants(p, RunNodes(p))

UpstreamOfSkippedWithChildren(p) ==
  Ancestors(p, SkipNodes(p) \cap ChildInPartialRun(p))

\* _compute_nodes_to_reuse on pipeline p raises exactly when the two
\* closures intersect, and otherwise returns every node outside the
\* downstream closure of the nodes marked run.
NodesToReuseAsSpecified(p) ==
  /\ _compute_nodes_to_reuse(p).raised
       <=> DownstreamOfRunNodes(p) \cap UpstreamOfSkippedWithChildren(p) # {}
  /\ ~_compute_nodes_to_reuse(p).raised
       => _compute_nodes_to_reuse(p).nodes_to_reuse
            = NodeIdsOf(p) \ DownstreamOfRunNodes(p)

\* The pipeline with child_in_partial_run set on the node after marking.
WithChildInPartialRun(p, node_id) ==
  [p EXCEPT ![node_id].execution_options.child_in_partial_run = TRUE]

\* C30: _compute_nodes_to_reuse returns exactly the node ids outside the
\* downstream closure (start nodes included) of the nodes marked run, and
\* raises ValueError instead when that closure meets the upstream closure
\* of the nodes marked skip with child_in_partial_run; this for the marked
\* pipeline and for the pipeline with the marks of any skipped node edited.
\* A call of reuse_pipeline_run_artifacts with a valid run id visits exactly
\* those nodes, or raises the ValueError and leaves the store as it was
\* (stated of the call just made; the calls leave the pipeline as it is, so
\* the first part is stated of the pipeline before the first call).
C30_NodesToReuse ==
  /\ (runtime.calls = <<>> /\ runtime.node_calls = <<>>) =>
       /\ NodesToReuseAsSpecified(pipeline)
       /\ \A node_id \in SkipNodes(pipeline) :
            NodesToReuseAsSpecified(WithChildInPartialRun(pipeline, node_id))
  /\ \A i \in CallJustMade :
       \A call \in {runtime.calls[i]} :
         _get_validated_new_run_id(runtime.pipeline_run_id,
                                   call.new_run_id).raised = ""
           => IF DownstreamOfRunNodes(pipeline)
                   \cap UpstreamOfSkippedWithChildren(pipeline) # {}
              THEN call.raised = "ValueError" /\ call.after = call.before
              ELSE /\ {call.order[k] : k \in 1..Len(call.order)}
                        = NodeIdsOf(pipeline) \ DownstreamOfRunNodes(pipeline)
                   /\ call.raised # "ValueError"

\* A call on the chain whose middle node is to run reused the outputs of
\* the first node and left the last node, downstream of the run node and
\* marked skip, without an execution in the new run.
C30_Witness ==
  /\ Len(runtime.calls) >= 1
  /\ RunNodes(pipeline) = {2}
  /\ SkipNodes(pipeline) = {1, 3}
  /\ runtime.calls[1].raised = ""
  /\ runtime.calls[1].order = <<1>>
  /\ ExecutionsUnder(runtime.calls[1].after, 1, NewRunOf(runtime.calls[1]))
       # {}
  /\ ExecutionsUnder(runtime.calls[1].after, 3, NewRunOf(runtime.calls[1]))
       = {}
  /\ UpstreamOfSkippedWithChildren(pipeline) = {1}


\* C35: the pipeline that mark_pipeline leaves is accepted by
\* _compute_nodes_to_reuse: the ValueError is not raised, every node marked
\* skip with child_in_partial_run is among the nodes to reuse, and no node
\* marked run is.
C35_MarkerOutputAcceptedByRecycler ==
  phase = "marked" =>
    \A r \in {_compute_nodes_to_reuse(pipeline)} :
      /\ ~r.raised
      /\ ChildInPartialRun(pipeline) \subseteq r.nodes_to_reuse
      /\ RunNodes(pipeline) \cap r.nodes_to_reuse = {}

\* A marked pipeline with a node to run downstream of another node to run
\* and a skipped node with a child in the partial run, which is reused.
C35_Witness ==
  /\ phase = "marked"
  /\ \E a \in RunNodes(pipeline) :
       \E b \in RunNodes(pipeline) : a \in pipeline[b].upstream_nodes
  /\ ChildInPartialRun(pipeline) # {}
  /\ ChildInPartialRun(pipeline)
       \subseteq _compute_nodes_to_reuse(pipeline).nodes_to_reuse


(***************************************************************************)
(* A metadata store shared with another pipeline                           *)
(***************************************************************************)

OtherPipelineName == "q"

\* Another pipeline ran on the same store after the runs the store holds:
\* it registered its pipeline context, the context of its run and a node
\* context, and one successful execution under the three.
WithRunOfOtherPipeline(store) ==
  LET registered ==
        register_context_if_not_exists(
          register_context_if_not_exists(
            register_context_if_not_exists(store, "pipeline",
                                           OtherPipelineName),
            "pipeline_run", "runQ"),
          "node", node_context_name(OtherPipelineName, 1))
  IN [registered EXCEPT
        !.executions =
           Append(@, [contexts |->
                        {get_context_by_type_and_name(
                           registered, "pipeline", OtherPipelineName),
                         get_context_by_type_and_name(
                           registered, "pipeline_run", "runQ"),
                         get_context_by_type_and_name(
                           registered, "node",
                           node_context_name(OtherPipelineName, 1))},
                      last_known_state |-> "COMPLETE",
                      outputs |-> {Len(registered.executions) + 1}])]

\* The stores of the recycler runs, each as it is and after the other
\* pipeline ran on it.
SharedStores(marked_pipeline) ==
  RecycleStores(marked_pipeline)
    \cup {WithRunOfOtherPipeline(store) :
            store \in RecycleStores(marked_pipeline)}

InitSharedStore ==
  /\ \E r \in RecyclePipelines :
       /\ pipeline = r.pipeline
       /\ markLog =
            [called |-> TRUE,
             from_node_ids |-> r.from_node_ids,
             to_node_ids |-> r.to_node_ids,
             node_map |-> r.node_map,
             excluded_direct_dependencies |->
               r.excluded_direct_dependencies]
  /\ phase = "recycling"
  /\ svcKind = <<>> /\ nodeState = <<>> /\ executions = <<>>
  /\ queue = <<>> /\ _successful_nodes_cache = {} /\ tick = <<>>
  /\ budget = 0
  /\ \E store \in SharedStores(pipeline) :
       \E pipeline_run_id \in {"", "run1"} :
         runtime = [NoRuntime EXCEPT
                      !.store = store,
                      !.pipeline_run_id = pipeline_run_id]

SpecSharedStore == InitSharedStore /\ [][NextRecycle]_vars

\* The names of the pipeline-run contexts under which the store holds an
\* execution of the pipeline.
RunsOf(store, pipeline_name) ==
  {ctx.name : ctx \in
     {c \in store.contexts :
        /\ c.type = "pipeline_run"
        /\ \E i \in DOMAIN store.executions :
             {c, get_context_by_type_and_name(store, "pipeline",
                                              pipeline_name)}
               \subseteq store.executions[i].contexts}}

\* C36 as claimed: a call of reuse_pipeline_run_artifacts without
\* base_run_id never takes a run of another pipeline as the base run (stated
\* of the latest call).
C36_DefaultBaseRunOfSamePipeline ==
  \A i \in DOMAIN runtime.calls \cap {Len(runtime.calls)} :
    \A call \in {runtime.calls[i]} :
      DefaultsBaseRun(call) =>
        BaseRunOf(call.before, "", NewRunOf(call))
          \notin RunsOf(call.before, OtherPipelineName)

====
